---- MODULE Spec2Model ----
(***************************************************************************)
(* Model of the Aztec validator monitor bot (src/bot.py): the polling      *)
(* cycle check_for_updates (event detection against per-validator slot     *)
(* watermarks, the two-confirmation activation debounce), the JSON state   *)
(* files, the interval scheduler set up in main, and the activation ETA    *)
(* estimate.                                                               *)
(***************************************************************************)
EXTENDS Integers, Sequences, FiniteSets, TLC

(***************************************************************************)
(* Bounds of the model.                                                    *)
(***************************************************************************)
\* largest slot number the data source reports
MaxSlot == 2
\* longest attestation / proposal history checked against the detector alone
MaxLen == 3
\* largest queue position and validators-per-epoch value given to the ETA estimate
MaxPosition == 6
MaxVpe == 5
\* longest attestation / proposal history a polling cycle fetches
CycleLen == 2
\* the same for a cycle over two entities with every queue answer, beside a
\* command handler, or with a failing write
ShortLen == 1
\* largest queue position a polling cycle is told
MaxQueuePos == 1
\* activation_confirmations is not bounded by the code: the model stops
\* feeding "not-in-queue" observations once it reaches this value
MaxConfirmations == 3
\* most run times of the interval job that come due before the scheduler looks
MaxDue == 3
\* the scheduler is followed until it has started or skipped this many runs
MaxRuns == 4
\* most pages of the queue a source of the page sweep lists one by one
MaxPages == 2
\* the pages past the listed ones the page sweep is followed for
MaxBeyond == 2
\* the records of a history in which a send fails
MaxSendLen == 2

(***************************************************************************)
(* Values.                                                                 *)
(***************************************************************************)
\* Python's None where a string is expected
None == "None"
\* an optional integer: <<>> is Python's None, <<n>> the integer n
NoInt == <<>>
Some(n) == <<n>>
\* Python's True or False where an integer is expected: an int of value 1
\* or 0 that is still a bool (it prints as True, and json.dump writes true)
SomeBool(b) == <<IF b THEN 1 ELSE 0, "bool">>

Slots == 0..MaxSlot

\* status strings of the attestation records the data source may send
AttStatuses == {"Success", "Missed", "Late"}
\* status strings of the proposal records the data source may send
PropStatuses == {"block-proposed", "Block-Mined", "block-missed", "orphaned"}

RECURSIVE SeqsUpTo(_, _)
\* every sequence over S of length at most n
SeqsUpTo(S, n) ==
    IF n = 0 THEN {<<>>}
    ELSE LET shorter == SeqsUpTo(S, n - 1)
         IN  shorter \cup {Append(q, x) : q \in {p \in shorter : Len(p) = n - 1}, x \in S}

\* str.lower() on the status strings of the model
Lower(s) ==
    CASE s = "Block-Mined" -> "block-mined"
      [] s = "Block-Proposed" -> "block-proposed"
      [] s = "Block-Missed" -> "block-missed"
      [] OTHER -> s

(***************************************************************************)
(* Event detection: the two loops of check_for_updates over the fetched    *)
(* histories.  Each returns the messages handed to bot.send_message, in    *)
(* the order of the calls, and the value stored as the new watermark.      *)
(***************************************************************************)
\* att.get('slot', 0) / prop.get('slot', 0)
SlotOf(r) == IF "slot" \in DOMAIN r THEN r.slot ELSE 0

AttTitle(status) ==
    IF status = "Success" THEN "Attestation Succeeded"
    ELSE IF status = "Missed" THEN "Attestation Missed"
    ELSE "Attestation Update"

PropTitle(status) ==
    LET status_prop == Lower(IF status = None THEN "" ELSE status)
    IN  IF status_prop = "block-proposed" THEN "Block Proposed"
        ELSE IF status_prop = "block-mined" THEN "Block Mined"
        ELSE IF status_prop = "block-missed" THEN "Block Missed"
        ELSE "Block Update"

AttMessage(address, r) ==
    [kind |-> "attestation", address |-> address, slot |-> SlotOf(r),
     title |-> AttTitle(IF "status" \in DOMAIN r THEN r.status ELSE "N/A")]

PropMessage(address, r) ==
    [kind |-> "proposal", address |-> address, slot |-> SlotOf(r),
     title |-> PropTitle(IF "status" \in DOMAIN r THEN r.status ELSE None)]

\* an off-by-one slip: the record at the watermark passes again
IsNewInclusive(slot, latest_notified) == slot >= latest_notified

\* the "if slot > latest_notified" test that gates one record
IsNew(slot, latest_notified) == slot > latest_notified

\* a bookkeeping slip: the slot seen last is kept, not the largest
MaxNewLast(max_new, slot) == slot

\* the running maximum kept in max_new_att / max_new_prop
MaxNew(max_new, slot) == IF slot > max_new THEN slot ELSE max_new

RECURSIVE DetectLoop(_, _, _, _, _, _)
\* one pass of a detection loop over recs[i..]: sent is the messages sent so
\* far, max_new the running maximum; latest_notified stays the old watermark
DetectLoop(kind, address, recs, i, latest_notified, acc) ==
    IF i > Len(recs) THEN acc
    ELSE LET r == recs[i]
             slot == SlotOf(r)
         IN  IF IsNew(slot, latest_notified)
             THEN DetectLoop(kind, address, recs, i + 1, latest_notified,
                      [sent |-> Append(acc.sent,
                                   IF kind = "attestation" THEN AttMessage(address, r)
                                   ELSE PropMessage(address, r)),
                       max_new |-> MaxNew(acc.max_new, slot)])
             ELSE DetectLoop(kind, address, recs, i + 1, latest_notified, acc)

\* an initialisation slip: the running maximum starts at 0, not at the watermark
DetectAttestationsFromZero(address, latest_notified_att, recs) ==
    DetectLoop("attestation", address, recs, 1, latest_notified_att,
               [sent |-> <<>>, max_new |-> 0])

\* lines 367-384: the attestation loop
DetectAttestations(address, latest_notified_att, recs) ==
    DetectLoop("attestation", address, recs, 1, latest_notified_att,
               [sent |-> <<>>, max_new |-> latest_notified_att])

\* lines 387-407: the proposal loop
DetectProposals(address, latest_notified_prop, recs) ==
    DetectLoop("proposal", address, recs, 1, latest_notified_prop,
               [sent |-> <<>>, max_new |-> latest_notified_prop])

AttRecords == [slot : Slots, status : AttStatuses]
PropRecords == [slot : Slots, status : PropStatuses]

(***************************************************************************)
(* Per-validator state and the activation debounce of check_for_updates.   *)
(***************************************************************************)
Addresses == {"a", "b"}

\* the default of last_state.get(address, {...})
DefaultState ==
    [latest_attestation_slot |-> 0,
     latest_proposal_slot |-> 0,
     queue_position |-> NoInt,
     activated_notified |-> FALSE,
     activation_confirmations |-> 0]

\* last_state.get(address, default) and last_state[address] = state
GetState(map, address) == IF address \in DOMAIN map THEN map[address] ELSE DefaultState
PutState(map, address, st) ==
    [x \in DOMAIN map \cup {address} |-> IF x = address THEN st ELSE map[x]]
EmptyMap == [x \in {} |-> DefaultState]

\* the number of characters json.dump(data, f, indent=4) writes for a state
\* map whose keys are the one-character addresses of the model: the digits
\* of an integer, null, true or false, and the fixed text around them
RECURSIVE Digits(_)
Digits(n) == IF n < 0 THEN 1 + Digits(0 - n) ELSE IF n < 10 THEN 1 ELSE 1 + Digits(n \div 10)
BoolLen(b) == IF b THEN 4 ELSE 5
PositionLen(position) ==
    IF position = NoInt THEN 4
    ELSE IF Len(position) = 2 THEN BoolLen(position[1] = 1)
    ELSE Digits(position[1])
RecordLen(st) ==
    184 + Digits(st.latest_attestation_slot) + Digits(st.latest_proposal_slot)
        + PositionLen(st.queue_position) + BoolLen(st.activated_notified)
        + Digits(st.activation_confirmations)
RECURSIVE RecordsLen(_, _)
RecordsLen(map, keys) ==
    IF keys = {} THEN 0
    ELSE LET k == CHOOSE x \in keys : TRUE
         IN  RecordLen(map[k]) + RecordsLen(map, keys \ {k})
DocLen(map) ==
    IF DOMAIN map = {} THEN 2
    ELSE RecordsLen(map, DOMAIN map) + 2 * Cardinality(DOMAIN map) + 2

\* save_json_file line 88, open(filename, 'w'): the file is emptied
Emptied(empty) == [intact |-> FALSE, data |-> empty]

\* the length of a file: an emptied one has none, one with the end of a
\* longer document left in it has that document's length
FileLen(file) ==
    IF ~file.intact /\ file.data = EmptyMap THEN 0 ELSE DocLen(file.data)

\* save_json_file line 89 and the end of its with block: the whole document
\* goes into the file from its start when the file is closed.  Over a file
\* another writer has filled since this one emptied it, a shorter document
\* leaves the end of the longer one behind it, and the file does not parse
Written(file, map) ==
    IF DocLen(map) >= FileLen(file)
    THEN [intact |-> TRUE, data |-> map]
    ELSE [intact |-> FALSE, data |-> file.data]

\* the record kept of a fetched history: its slots
NoHistory == [ok |-> FALSE, slots |-> {}]
History(recs) == [ok |-> TRUE, slots |-> {SlotOf(recs[i]) : i \in 1..Len(recs)}]

\* the same history again, or a part of it
IsReplay(previous, recs) == previous.ok /\ History(recs).slots \subseteq previous.slots

(***************************************************************************)
(* fetch_queue_info.  A lookup is what the queue API answers: search is    *)
(* the answer to the search request, pages[p] the answer to the request    *)
(* for page p of the sweep, and beyond how every page after the listed     *)
(* ones is answered.  An answer of kind "raise" is a request or a parse    *)
(* that raises (timeout, connection error, an error status on the search   *)
(* request, a body that is not JSON); "non200" is a sweep page answered    *)
(* with another status than 200; "ok" carries the parsed body; "more", as  *)
(* the answer beyond the listed pages, is a source that answers every      *)
(* further page with an empty 200 page announcing one page more.           *)
(***************************************************************************)
\* JSON values of a 'position' or 'index' field: null, an integer, true or
\* false, a string given as its characters, or something else (a float, a
\* list, an object)
JsonNull == [type |-> "null"]
JsonInt(n) == [type |-> "int", value |-> n]
JsonBool(b) == [type |-> "bool", value |-> b]
JsonStr(chars) == [type |-> "str", chars |-> chars]
JsonOther == [type |-> "other"]

\* The characters of a text are Unicode code points: 35 is '#', 48 to 57 are
\* '0' to '9', 1632 to 1641 the ARABIC-INDIC digits, 65296 to 65305 the
\* FULLWIDTH digits.
\* The code point of the digit zero of every script with decimal digits
\* (general category Nd); the other nine digits of a script follow its zero
DigitZeros ==
    {48, 1632, 1776, 1984, 2406, 2534, 2662, 2790, 2918, 3046, 3174, 3302, 3430,
     3558, 3664, 3792, 3872, 4160, 4240, 6112, 6160, 6470, 6608, 6784, 6800, 6992,
     7088, 7232, 7248, 42528, 43216, 43264, 43472, 43504, 43600, 44016, 65296,
     66720, 68912, 69734, 69872, 69942, 70096, 70384, 70736, 70864, 71248, 71360,
     71472, 71904, 72016, 72784, 73040, 73120, 92768, 92864, 93008, 120782,
     120792, 120802, 120812, 120822, 123200, 123632, 125264, 130032}

\* what the pattern \D does not match and int() reads as a digit: a decimal
\* digit of any script
IsDigit(c) == \E z \in DigitZeros : z <= c /\ c <= z + 9
DigitValue(c) == c - (CHOOSE z \in DigitZeros : z <= c /\ c <= z + 9)

\* sys.get_int_max_str_digits(): int() refuses a text of more digits
MaxStrDigits == 4300

\* int() of a string of digits
RECURSIVE IntOfDigits(_, _)
IntOfDigits(digits, n) ==
    IF n = 0 THEN 0 ELSE 10 * IntOfDigits(digits, n - 1) + DigitValue(digits[n])

\* _parse_position_value: an integer is itself, and so is True or False
\* (a bool is an int to isinstance); a string gives the number its decimal
\* digits spell ('#146' -> 146), None when it has none or more than int()
\* reads; anything else None
ParsePositionValue(val) ==
    CASE val.type = "int" -> Some(val.value)
      [] val.type = "bool" -> SomeBool(val.value)
      [] val.type = "str" ->
            LET digits == SelectSeq(val.chars, IsDigit)
            IN  IF digits = <<>> \/ Len(digits) > MaxStrDigits THEN NoInt
                ELSE Some(IntOfDigits(digits, Len(digits)))
      [] OTHER -> NoInt

\* item.get(key)
ItemGet(item, key) == IF key \in DOMAIN item THEN item[key] ELSE JsonNull

\* the position of a queue item: 'position', else 'index'
ItemPosition(item) ==
    LET pos == ParsePositionValue(ItemGet(item, "position"))
    IN  IF pos = NoInt THEN ParsePositionValue(ItemGet(item, "index")) ELSE pos

\* str.lower() on the addresses of the model
LowerAddress(s) == IF s = "A" THEN "a" ELSE IF s = "B" THEN "b" ELSE s

\* a case slip: the item's address is compared as it is given
ItemAddressAsGiven(item) ==
    IF "address" \in DOMAIN item /\ item.address # "" THEN item.address
    ELSE IF "withdrawerAddress" \in DOMAIN item THEN item.withdrawerAddress
    ELSE ""

\* (it.get('address') or it.get('withdrawerAddress') or '').lower()
ItemAddress(item) ==
    LowerAddress(IF "address" \in DOMAIN item /\ item.address # "" THEN item.address
                 ELSE IF "withdrawerAddress" \in DOMAIN item THEN item.withdrawerAddress
                 ELSE "")

\* the first item of a page whose address is the one looked for, as <<item>>,
\* or <<>>
RECURSIVE FoundItem(_, _, _)
FoundItem(address, items, i) ==
    IF i > Len(items) THEN <<>>
    ELSE IF ItemAddress(items[i]) = LowerAddress(address) THEN <<items[i]>>
    ELSE FoundItem(address, items, i + 1)

\* the answer to the request for page p
PageAt(source, p) ==
    IF p <= Len(source.pages) THEN source.pages[p]
    ELSE IF source.beyond.kind = "more"
    THEN [kind |-> "ok", validatorsInQueue |-> <<>>, totalPages |-> p + 1]
    ELSE source.beyond

\* int(pagination.get('totalPages', page)) or page
TotalPages(answer, page) ==
    IF "totalPages" \in DOMAIN answer /\ answer.totalPages # 0
    THEN answer.totalPages ELSE page

InQueue(item) == [position |-> ItemPosition(item), status |-> "in-queue"]
NotInQueue == [position |-> NoInt, status |-> "not-in-queue"]
LookupError == [position |-> NoInt, status |-> None]
\* fetch_queue_info does not return: the while loop has no end
RunsOn == [qinfo |-> [position |-> NoInt, status |-> "no return"],
           failed |-> FALSE, returns |-> FALSE]
Returns(qinfo, failed) == [qinfo |-> qinfo, failed |-> failed, returns |-> TRUE]

\* lines 217-245: the sweep from `page` on; qinfo is what fetch_queue_info
\* returns, failed whether a request of the lookup went wrong on the way,
\* returns whether the loop ends.  Past the listed pages of a source that
\* announces one page more with every answer, each turn finds no record and
\* a total_pages of page + 1, so the condition of the loop stays true.
RECURSIVE Sweep(_, _, _, _)
Sweep(address, source, page, total_pages) ==
    IF page > total_pages THEN Returns(NotInQueue, FALSE)
    ELSE IF page > Len(source.pages) /\ source.beyond.kind = "more" THEN RunsOn
    ELSE LET answer == PageAt(source, page)
         IN  IF answer.kind = "raise" THEN Returns(LookupError, TRUE)
             ELSE IF answer.kind = "non200" THEN Returns(NotInQueue, TRUE)
             ELSE LET found == FoundItem(address, answer.validatorsInQueue, 1)
                  IN  IF found # <<>>
                      THEN Returns(InQueue(found[1]), FALSE)
                      ELSE Sweep(address, source, page + 1, TotalPages(answer, page))

\* filtered_count == 0: true of 0 and of False, not of None
EqualsZero(count) == count # NoInt /\ count[1] = 0

\* lines 193-249: the search request, then the sweep
QueueLookup(address, lookup) ==
    IF lookup.search.kind = "raise" THEN Returns(LookupError, TRUE)
    ELSE IF lookup.search.validatorsInQueue # <<>>
    THEN Returns(InQueue(lookup.search.validatorsInQueue[1]), FALSE)
    ELSE IF EqualsZero(lookup.search.filteredCount)
    THEN Returns(NotInQueue, FALSE)
    ELSE Sweep(address, lookup, 1, 1)

FetchQueueInfo(address, lookup) == QueueLookup(address, lookup).qinfo
LookupFailed(address, lookup) == QueueLookup(address, lookup).failed
LookupReturns(address, lookup) == QueueLookup(address, lookup).returns

\* The answers a lookup may be made of
Raises == [kind |-> "raise"]
Non200 == [kind |-> "non200"]
OneMore == [kind |-> "more"]
SearchOk(items, filtered_count) ==
    [kind |-> "ok", validatorsInQueue |-> items, filteredCount |-> filtered_count]
PageOk(items, total_pages) ==
    [kind |-> "ok", validatorsInQueue |-> items, totalPages |-> total_pages]

\* the queue items an answer may list for an address: the position as a
\* number, as the text '#1' of the 'index' field, as true, or absent
QueueItems(address) ==
    {[address |-> address, position |-> JsonInt(p)] : p \in 1..MaxQueuePos}
    \cup {[address |-> address, index |-> JsonStr(<<35, 49>>)],
          [address |-> address, position |-> JsonBool(TRUE)], [address |-> address]}

\* the sweeps a lookup for an address may run into: a request that raises,
\* a page answered with an error status (the first page, or the second
\* after a first page without the entity), the entity on no page, the
\* entity on the second page
SweepAnswers(address) ==
    {<<Raises>>, <<Non200>>, <<PageOk(<<>>, 1)>>, <<PageOk(<<>>, 2), Non200>>,
     <<PageOk(<<>>, 2), PageOk(<<[address |-> address, position |-> JsonInt(1)]>>, 2)>>}

\* what the API answers to one call of fetch_queue_info
Lookup(search, pages, beyond) == [search |-> search, pages |-> pages, beyond |-> beyond]

\* the lookups about one address: the search raises, the search lists an
\* item, the search reports no match (a filteredCount of 0 or of false), or
\* the search is inconclusive and the sweep runs, to an end or without one
LookupsAbout ==
  [address \in Addresses |->
    {Lookup(Raises, <<>>, Non200),
     Lookup(SearchOk(<<>>, Some(0)), <<>>, Non200),
     Lookup(SearchOk(<<>>, SomeBool(FALSE)),
            <<PageOk(<<[address |-> address, position |-> JsonInt(1)]>>, 1)>>, Non200),
     Lookup(SearchOk(<<>>, NoInt), <<>>, OneMore)}
    \cup {Lookup(SearchOk(<<it>>, Some(1)), <<>>, Non200) : it \in QueueItems(address)}
    \cup {Lookup(SearchOk(<<>>, NoInt), ps, Non200) : ps \in SweepAnswers(address)}]

\* the answers the queue API may give to a cycle; the queue step takes the
\* ones about the entity it is at
QueueLookups == UNION {LookupsAbout[a] : a \in Addresses}

\* a counting slip: the alert fires on the first "not-in-queue" observation
ThresholdOne == 2 - 1

\* the number of consecutive confirmations the alert waits for
Threshold == 2

ActivationMessage(address) ==
    [kind |-> "activation", address |-> address, slot |-> 0, title |-> "Operator Activated!"]

\* a reset slip: an "in-queue" observation leaves the streak as it is
DebounceKeepsStreak(st, qinfo) ==
    LET is_active_like == (qinfo.status = "not-in-queue")
        counted == IF is_active_like
                   THEN [st EXCEPT !.queue_position = qinfo.position,
                                   !.activation_confirmations = @ + 1]
                   ELSE [st EXCEPT !.queue_position = qinfo.position]
        alert == counted.activation_confirmations >= 2 /\ ~counted.activated_notified
    IN  [state |-> IF alert THEN [counted EXCEPT !.activated_notified = TRUE] ELSE counted,
         alert |-> alert]

\* a reset slip: an observation other than "not-in-queue" clears the count
\* and leaves activated_notified as it is
DebounceKeepsNotified(st, qinfo) ==
    LET is_active_like == (qinfo.status = "not-in-queue")
        counted == IF is_active_like
                   THEN [st EXCEPT !.queue_position = qinfo.position,
                                   !.activation_confirmations = @ + 1]
                   ELSE [st EXCEPT !.queue_position = qinfo.position,
                                   !.activation_confirmations = 0]
        alert == counted.activation_confirmations >= 2 /\ ~counted.activated_notified
    IN  [state |-> IF alert THEN [counted EXCEPT !.activated_notified = TRUE] ELSE counted,
         alert |-> alert]

\* a counting slip: the count stops at the threshold
DebounceCapped(st, qinfo) ==
    LET is_active_like == (qinfo.status = "not-in-queue")
        counted == IF is_active_like
                   THEN [st EXCEPT !.queue_position = qinfo.position,
                                   !.activation_confirmations =
                                       IF @ >= 2 THEN 2 ELSE @ + 1]
                   ELSE [st EXCEPT !.queue_position = qinfo.position,
                                   !.activation_confirmations = 0,
                                   !.activated_notified = FALSE]
        alert == counted.activation_confirmations >= 2 /\ ~counted.activated_notified
    IN  [state |-> IF alert THEN [counted EXCEPT !.activated_notified = TRUE] ELSE counted,
         alert |-> alert]

\* lines 410-430: the queue observation applied to the entity's state; alert
\* says whether the activation message is sent
Debounce(st, qinfo) ==
    LET q_status == Lower(IF qinfo.status = None THEN "" ELSE qinfo.status)
        is_active_like == (q_status = "not-in-queue")
        counted == IF is_active_like
                   THEN [st EXCEPT !.queue_position = qinfo.position,
                                   !.activation_confirmations = @ + 1]
                   ELSE [st EXCEPT !.queue_position = qinfo.position,
                                   !.activation_confirmations = 0,
                                   !.activated_notified = FALSE]
        alert == counted.activation_confirmations >= Threshold
                     /\ ~counted.activated_notified
    IN  [state |-> IF alert THEN [counted EXCEPT !.activated_notified = TRUE] ELSE counted,
         alert |-> alert]

(***************************************************************************)
(* ETA estimate.                                                           *)
(***************************************************************************)
DEFAULT_EPOCH_MINUTES == 38
DEFAULT_VALIDATORS_PER_EPOCH == 4

\* a rounding slip: floor instead of ceiling
CeilAsFloor(n, d) == n \div d

\* math.ceil(n / d) for n >= 0 and d >= 1
Ceil(n, d) == LET q == n \div d IN IF q * d = n THEN q ELSE q + 1

Max(a, b) == IF a >= b THEN a ELSE b

\* _format_days_hours_from_minutes: the parts of the text, each a count and
\* its unit word
FormatDaysHours(total_minutes) ==
    IF total_minutes <= 0 THEN <<[n |-> 0, unit |-> "hours"]>>
    ELSE LET hours == Ceil(total_minutes, 60)
             days == hours \div 24
             rem_hours == hours % 24
             dayPart == IF days > 0
                        THEN <<[n |-> days, unit |-> IF days # 1 THEN "days" ELSE "day"]>>
                        ELSE <<>>
             hourPart == IF rem_hours > 0 \/ days = 0
                         THEN <<[n |-> rem_hours,
                                 unit |-> IF rem_hours # 1 THEN "hours" ELSE "hour"]>>
                         ELSE <<>>
         IN  dayPart \o hourPart

\* an offset slip: the position itself is divided, not the positions ahead
EstimateActivationTimeNoOffset(position, stats, now) ==
    IF position = NoInt \/ position[1] <= 0
    THEN [human |-> "Active (not in queue)", eta |-> NoInt, epochs_wait |-> 0,
          minutes_wait |-> 0]
    ELSE LET vpe == IF "validators_per_epoch" \in DOMAIN stats
                    THEN stats.validators_per_epoch ELSE DEFAULT_VALIDATORS_PER_EPOCH
             epoch_min == IF "epoch_minutes" \in DOMAIN stats
                          THEN stats.epoch_minutes ELSE DEFAULT_EPOCH_MINUTES
             epochs_wait == Ceil(position[1], Max(vpe, 1))
             minutes_wait == epochs_wait * epoch_min
         IN  [human |-> FormatDaysHours(minutes_wait), eta |-> Some(now + minutes_wait),
              epochs_wait |-> epochs_wait, minutes_wait |-> minutes_wait]

\* estimate_activation_time(position, stats) called at minute `now`; the
\* timestamp is NoInt for the "-" the function returns for an active entity
EstimateActivationTime(position, stats, now) ==
    IF position = NoInt \/ position[1] <= 0
    THEN [human |-> "Active (not in queue)", eta |-> NoInt, epochs_wait |-> 0,
          minutes_wait |-> 0]
    ELSE LET vpe == IF "validators_per_epoch" \in DOMAIN stats
                    THEN stats.validators_per_epoch ELSE DEFAULT_VALIDATORS_PER_EPOCH
             epoch_min == IF "epoch_minutes" \in DOMAIN stats
                          THEN stats.epoch_minutes ELSE DEFAULT_EPOCH_MINUTES
             epochs_wait == Ceil(position[1] - 1, Max(vpe, 1))
             minutes_wait == epochs_wait * epoch_min
         IN  [human |-> FormatDaysHours(minutes_wait), eta |-> Some(now + minutes_wait),
              epochs_wait |-> epochs_wait, minutes_wait |-> minutes_wait]

(***************************************************************************)
(* Configuration, lines 26-31 and 607-609.                                 *)
(***************************************************************************)
\* os.getenv of a variable that is not set
Unset == [set |-> FALSE]
\* os.getenv of a variable set to the text of these characters
Text(chars) == [set |-> TRUE, chars |-> chars]

\* the white space int() strips from both ends of its text: tab to carriage
\* return, the space, and the spaces of Unicode outside ASCII
Whitespace ==
    (9..13) \cup {32, 133, 160, 5760} \cup (8192..8202)
        \cup {8232, 8233, 8239, 8287, 12288}
RECURSIVE StripLeft(_)
StripLeft(chars) ==
    IF chars # <<>> /\ chars[1] \in Whitespace THEN StripLeft(Tail(chars)) ELSE chars
RECURSIVE StripRight(_)
StripRight(chars) ==
    IF chars # <<>> /\ chars[Len(chars)] \in Whitespace
    THEN StripRight(SubSeq(chars, 1, Len(chars) - 1)) ELSE chars
Strip(chars) == StripRight(StripLeft(chars))

\* whether int(text) succeeds: white space around it aside, an optional
\* sign, then decimal digits, no more than MaxStrDigits of them, with single
\* underscores between digits allowed
IntParses(chars) ==
    LET text == Strip(chars)
        \* '+' and '-'
        body == IF text # <<>> /\ text[1] \in {43, 45} THEN Tail(text) ELSE text
    IN  /\ body # <<>>
        /\ \A i \in 1..Len(body) :
               \/ IsDigit(body[i])
               \* '_'
               \/ /\ body[i] = 95
                  /\ 1 < i /\ i < Len(body)
                  /\ IsDigit(body[i - 1]) /\ IsDigit(body[i + 1])
        /\ Len(SelectSeq(body, IsDigit)) <= MaxStrDigits

\* lines 27-31: int(os.getenv("TELEGRAM_ID")) raises TypeError on None and
\* ValueError on a text that is no integer
TelegramIdValid(e) == e.TELEGRAM_ID.set /\ IntParses(e.TELEGRAM_ID.chars)

\* line 607: `not BOT_TOKEN` is true of None and of the empty text
BotTokenSet(e) == e.BOT_TOKEN.set /\ e.BOT_TOKEN.chars # <<>>

\* an environment with both variables in order: TELEGRAM_ID=42 and BOT_TOKEN=t
ValidEnv == [TELEGRAM_ID |-> Text(<<52, 50>>), BOT_TOKEN |-> Text(<<116>>)]

VARIABLES
    \* validators.json and last_state.json: the watch list and the state map,
    \* each with whether the file holds a complete JSON document; of a file
    \* that does not, data is the document whose end is left behind a shorter
    \* one written over it, or empty for a file that was emptied
    validators_file, state_file,
    \* check_for_updates: where it is, its locals validators, last_state, the
    \* loop position idx, the entity's state, and whether data was fetched
    pc, validators, last_state, idx, state, data_ok,
    \* observation of a cycle: the messages bot.send_message delivered in the
    \* last step, that step's input, whether that input was a history with no
    \* slot outside the history the entity's previous data fetch returned,
    \* the (address, kind) pairs notified and the
    \* addresses whose data fetch failed so far in the cycle, whether a cycle
    \* has ever begun, the length of each entity's current run of consecutive
    \* "not-in-queue" observations, the last map written completely, and the
    \* slots of the attestation and proposal histories each entity's latest
    \* data fetch returned (ok is FALSE when that fetch failed or never ran)
    sent, last_in, replay, alerted, failed, begun, run, durable,
    prev_att, prev_prop,
    \* whether a request of the entity's queue lookup went wrong in the last
    \* step, and for each entity how many of its latest lookups in a row (at
    \* most two counted) completed without a failed request and reported it
    \* absent from the queue
    lookup_failed, genuine,
    \* the detector and the ETA estimate checked alone: the inputs, the result,
    \* and whether the function has returned
    arg, res, returned,
    \* main and its scheduler: where main is, how many executions of
    \* check_for_updates are in progress, how many run times of the interval
    \* job have come due since the scheduler last looked, and how many runs
    \* the scheduler has started and skipped
    main_pc, running, due, started, skipped,
    \* the environment the process is started in: TELEGRAM_ID and BOT_TOKEN,
    \* each unset or a text given as its characters
    env,
    \* failures: whether a call of bot.send_message has raised, whether the
    \* latest write of the state map failed, and the map the cycle of that
    \* write had computed
    send_failed, write_failed, computed,
    \* the command handler the dispatcher runs, /remove or /add: where it
    \* is, its local address (address_to_remove), and its locals validators
    \* and last_state
    cmd_pc, cmd_address, cmd_validators, cmd_last_state

cycleVars == <<validators_file, state_file, pc, validators, last_state, idx, state,
               data_ok, sent, last_in, replay, alerted, failed, begun, run,
               durable, prev_att, prev_prop, lookup_failed, genuine>>
pureVars == <<arg, res, returned>>
schedVars == <<main_pc, running, due, started, skipped, env>>
faultVars == <<send_failed, write_failed, computed>>
handlerVars == <<cmd_pc, cmd_address, cmd_validators, cmd_last_state>>
\* the variables of a cycle other than the two files
cycleLocals == <<pc, validators, last_state, idx, state, data_ok, sent, last_in,
                 replay, alerted, failed, begun, run, durable, prev_att, prev_prop,
                 lookup_failed, genuine>>
vars == <<cycleVars, pureVars, schedVars, faultVars, handlerVars>>

\* the parts of the state a specification does not use
CycleIdle ==
    /\ validators_file = [intact |-> TRUE, data |-> <<>>]
    /\ state_file = [intact |-> TRUE, data |-> EmptyMap]
    /\ pc = "idle"
    /\ validators = <<>>
    /\ last_state = EmptyMap
    /\ idx = 0
    /\ state = DefaultState
    /\ data_ok = FALSE
    /\ sent = <<>>
    /\ last_in = <<>>
    /\ lookup_failed = FALSE
    /\ replay = FALSE
    /\ alerted = {}
    /\ failed = {}
    /\ begun = FALSE
    /\ run = [a \in Addresses |-> 0]
    /\ genuine = [a \in Addresses |-> 0]
    /\ durable = EmptyMap
    /\ prev_att = [a \in Addresses |-> NoHistory]
    /\ prev_prop = [a \in Addresses |-> NoHistory]
PureIdle ==
    /\ arg = <<>>
    /\ res = <<>>
    /\ returned = FALSE
SchedIdle ==
    /\ main_pc = "scheduled"
    /\ running = 0
    /\ due = 0
    /\ started = 0
    /\ skipped = 0
    /\ env = ValidEnv
FaultIdle ==
    /\ send_failed = FALSE
    /\ write_failed = FALSE
    /\ computed = EmptyMap
HandlerIdle ==
    /\ cmd_pc = "idle"
    /\ cmd_address = ""
    /\ cmd_validators = <<>>
    /\ cmd_last_state = EmptyMap

(***************************************************************************)
(* The polling cycle, check_for_updates, one action per stretch of code    *)
(* between two inputs.                                                     *)
(***************************************************************************)
\* load_json_file: a file that does not parse gives the default
LoadValidators == IF validators_file.intact THEN validators_file.data ELSE <<>>
LoadLastState == IF state_file.intact THEN state_file.data ELSE EmptyMap

\* the histories a cycle may be handed, all of one known status
AttHistories == SeqsUpTo([slot : Slots, status : {"Success"}], CycleLen)
PropHistories == SeqsUpTo([slot : Slots, status : {"block-mined"}], CycleLen)
ShortAttHistories == SeqsUpTo([slot : Slots, status : {"Success"}], ShortLen)
ShortPropHistories == SeqsUpTo([slot : Slots, status : {"block-mined"}], ShortLen)

Kinds(msgs, address) == {<<address, msgs[i].kind>> : i \in 1..Len(msgs)}

\* the locals of check_for_updates are gone once it is left
LocalsDropped ==
    /\ validators' = <<>>
    /\ last_state' = EmptyMap
    /\ idx' = 0
    /\ state' = DefaultState
    /\ data_ok' = FALSE
    /\ sent' = <<>>
    /\ last_in' = <<>>
    /\ lookup_failed' = FALSE
    /\ replay' = FALSE
    /\ alerted' = {}
    /\ failed' = {}

\* what a cycle leaves behind when it returns
CycleReturns == pc' = "idle" /\ LocalsDropped

\* line 346: load_validators(); the cycle has sent nothing yet
BeginCycle ==
    /\ pc = "idle"
    /\ begun' = TRUE
    /\ validators' = LoadValidators
    /\ sent' = <<>>
    /\ pc' = "load_state"
    /\ UNCHANGED <<validators_file, state_file, last_state, idx, state, data_ok,
                   last_in, lookup_failed, replay, alerted, failed, run, genuine,
                   durable, prev_att, prev_prop, pureVars, schedVars, faultVars,
                   handlerVars>>

\* a slip: an empty watch list clears the state map
BeginLoadStateClears ==
    /\ pc = "load_state"
    /\ IF validators = <<>>
       THEN CycleReturns /\ state_file' = [intact |-> TRUE, data |-> EmptyMap]
       ELSE /\ pc' = "fetch"
            /\ last_state' = LoadLastState
            /\ idx' = 1
            /\ UNCHANGED <<state_file, validators, state, data_ok, sent, last_in,
                           lookup_failed, replay, alerted, failed>>
    /\ UNCHANGED <<validators_file, begun, run, genuine, durable, prev_att,
                   prev_prop, pureVars, schedVars, faultVars, handlerVars>>

\* lines 347-352: load_last_state(); an empty watch list returns at once
BeginLoadState ==
    /\ pc = "load_state"
    /\ IF validators = <<>>
       THEN CycleReturns
       ELSE /\ pc' = "fetch"
            /\ last_state' = LoadLastState
            /\ idx' = 1
            /\ UNCHANGED <<validators, state, data_ok, sent, last_in,
                           lookup_failed, replay, alerted, failed>>
    /\ UNCHANGED <<validators_file, state_file, begun, run, genuine, durable,
                   prev_att, prev_prop, pureVars, schedVars, faultVars,
                   handlerVars>>

\* lines 355-365 with fetch_validator_data returning None (or an empty
\* object): both detection loops are skipped
FetchDataFails ==
    /\ pc = "fetch"
    /\ LET address == validators[idx]
       IN  /\ state' = GetState(last_state, address)
           /\ failed' = failed \cup {address}
           /\ prev_att' = [prev_att EXCEPT ![address] = NoHistory]
           /\ prev_prop' = [prev_prop EXCEPT ![address] = NoHistory]
    /\ data_ok' = FALSE
    /\ sent' = <<>>
    /\ last_in' = <<>>
    /\ lookup_failed' = FALSE
    /\ replay' = FALSE
    /\ pc' = "queue"
    /\ UNCHANGED <<validators_file, state_file, validators, last_state, idx, alerted,
                   begun, run, genuine, durable, pureVars, schedVars,
                   faultVars, handlerVars>>

\* an ordering slip: the advanced attestation watermark is written to the
\* state file at once, before the rest of the cycle's messages are sent
AttestationsSavesFirst(recs) ==
    /\ pc = "fetch"
    /\ LET address == validators[idx]
           st == GetState(last_state, address)
           det == DetectAttestations(address, st.latest_attestation_slot, recs)
       IN  /\ state' = [st EXCEPT !.latest_attestation_slot = det.max_new]
           /\ last_state' = IF address \in DOMAIN last_state
                             THEN PutState(last_state, address, state')
                             ELSE last_state
           /\ state_file' = [intact |-> TRUE,
                             data |-> PutState(last_state, address, state')]
           /\ sent' = det.sent
           /\ alerted' = alerted \cup Kinds(det.sent, address)
           /\ prev_att' = [prev_att EXCEPT ![address] = History(recs)]
           /\ replay' = IsReplay(prev_att[address], recs)
    /\ data_ok' = TRUE
    /\ last_in' = recs
    /\ lookup_failed' = FALSE
    /\ pc' = "propose"
    /\ UNCHANGED <<validators_file, validators, idx, failed,
                   begun, run, genuine, durable, prev_prop, pureVars, schedVars,
                   faultVars, handlerVars>>

\* lines 355-384: the data is fetched and the attestation loop runs over
\* data['recentAttestations'].  For an address that is a key of last_state,
\* last_state.get returns the very record the map holds, so the assignment
\* of line 384 shows in last_state at once; for another address state is
\* the default, which is in the map only after line 432.
Attestations(recs) ==
    /\ pc = "fetch"
    /\ LET address == validators[idx]
           st == GetState(last_state, address)
           det == DetectAttestations(address, st.latest_attestation_slot, recs)
       IN  /\ state' = [st EXCEPT !.latest_attestation_slot = det.max_new]
           /\ last_state' = IF address \in DOMAIN last_state
                             THEN PutState(last_state, address, state')
                             ELSE last_state
           /\ sent' = det.sent
           /\ alerted' = alerted \cup Kinds(det.sent, address)
           /\ prev_att' = [prev_att EXCEPT ![address] = History(recs)]
           /\ replay' = IsReplay(prev_att[address], recs)
    /\ data_ok' = TRUE
    /\ last_in' = recs
    /\ lookup_failed' = FALSE
    /\ pc' = "propose"
    /\ UNCHANGED <<validators_file, state_file, validators, idx, failed,
                   begun, run, genuine, durable, prev_prop, pureVars, schedVars,
                   faultVars, handlerVars>>

\* lines 386-407: the proposal loop runs over data['proposalHistory']; the
\* assignment of line 407 shows in last_state as the one of line 384 does
Proposals(recs) ==
    /\ pc = "propose"
    /\ LET address == validators[idx]
           det == DetectProposals(address, state.latest_proposal_slot, recs)
       IN  /\ state' = [state EXCEPT !.latest_proposal_slot = det.max_new]
           /\ last_state' = IF address \in DOMAIN last_state
                             THEN PutState(last_state, address, state')
                             ELSE last_state
           /\ sent' = det.sent
           /\ alerted' = alerted \cup Kinds(det.sent, address)
           /\ prev_prop' = [prev_prop EXCEPT ![address] = History(recs)]
           /\ replay' = IsReplay(prev_prop[address], recs)
    /\ last_in' = recs
    /\ lookup_failed' = FALSE
    /\ pc' = "queue"
    /\ UNCHANGED <<validators_file, state_file, validators, idx, data_ok,
                   failed, begun, run, genuine, durable, prev_att, pureVars, schedVars,
                   faultVars, handlerVars>>

\* lines 409-432: the queue lookup, the debounce, and the entity's state put
\* back into last_state; then the next entity, or the save after the loop
QueueCheck(lookup) ==
    /\ pc = "queue"
    /\ LET address == validators[idx]
           qinfo == FetchQueueInfo(address, lookup)
           deb == Debounce(state, qinfo)
           msgs == IF deb.alert THEN <<ActivationMessage(address)>> ELSE <<>>
       IN  /\ lookup \in LookupsAbout[address]
           /\ LookupReturns(address, lookup)
           /\ qinfo.status = "not-in-queue" =>
                  state.activation_confirmations < MaxConfirmations
           /\ last_state' = PutState(last_state, address, deb.state)
           /\ sent' = msgs
           /\ alerted' = alerted \cup Kinds(msgs, address)
           /\ run' = [run EXCEPT ![address] =
                         IF qinfo.status = "not-in-queue" THEN @ + 1 ELSE 0]
           /\ last_in' = qinfo
           /\ lookup_failed' = LookupFailed(address, lookup)
           /\ genuine' = [genuine EXCEPT ![address] =
                             IF qinfo.status = "not-in-queue"
                                    /\ ~LookupFailed(address, lookup)
                             THEN (IF @ >= 2 THEN 2 ELSE @ + 1) ELSE 0]
    /\ replay' = FALSE
    /\ idx' = idx + 1
    /\ pc' = IF idx = Len(validators) THEN "save" ELSE "fetch"
    /\ state' = DefaultState
    /\ data_ok' = FALSE
    /\ UNCHANGED <<validators_file, state_file, validators, failed, begun, durable,
                   prev_att, prev_prop, pureVars, schedVars,
                   faultVars, handlerVars>>

\* line 410 with the sweep of lines 220-243 running on: the call of
\* fetch_queue_info does not return, and the cycle stays in it
QueueSweepRunsOn(lookup) ==
    /\ pc = "queue"
    /\ lookup \in LookupsAbout[validators[idx]]
    /\ ~LookupReturns(validators[idx], lookup)
    /\ pc' = "sweep"
    /\ UNCHANGED <<validators_file, state_file, validators, last_state, idx, state,
                   data_ok, sent, last_in, lookup_failed, replay, alerted, failed,
                   begun, run, genuine, durable, prev_att, prev_prop, pureVars,
                   schedVars, faultVars, handlerVars>>

\* line 434, save_json_file line 88: open(filename, 'w') empties the file
SaveOpen ==
    /\ pc = "save"
    /\ state_file' = Emptied(EmptyMap)
    /\ pc' = "dump"
    /\ UNCHANGED <<validators_file, validators, last_state, idx, state, data_ok, sent,
                   last_in, lookup_failed, replay, alerted, failed, begun, run,
                   genuine, durable,
                   prev_att, prev_prop, pureVars, schedVars,
                   faultVars, handlerVars>>

\* save_json_file line 89: json.dump writes the whole map, and the cycle returns
SaveDump ==
    /\ pc = "dump"
    /\ state_file' = Written(state_file, last_state)
    /\ durable' = last_state
    /\ write_failed' = FALSE
    /\ computed' = EmptyMap
    /\ CycleReturns
    /\ UNCHANGED <<validators_file, begun, run, genuine, prev_att, prev_prop, pureVars,
                   schedVars, send_failed, handlerVars>>

\* the steps of a cycle after its first, the data source answering with the
\* histories of atts and props and the queue API with the lookups
CycleSteps(atts, props, lookups) ==
    \/ BeginLoadState
    \/ FetchDataFails
    \/ \E recs \in atts : Attestations(recs)
    \/ \E recs \in props : Proposals(recs)
    \/ \E lookup \in lookups : QueueCheck(lookup)
    \/ \E lookup \in lookups : QueueSweepRunsOn(lookup)
    \/ SaveOpen
    \/ SaveDump

CycleStep == CycleSteps(AttHistories, PropHistories, QueueLookups)

\* the same with histories of at most ShortLen records
ShortCycleStep == CycleSteps(ShortAttHistories, ShortPropHistories, QueueLookups)

\* the bot started with a watch list and no state file yet
Init ==
    /\ validators_file \in [intact : {TRUE}, data : {<<>>, <<"a">>}]
    /\ state_file = [intact |-> TRUE, data |-> EmptyMap]
    /\ pc = "idle"
    /\ validators = <<>>
    /\ last_state = EmptyMap
    /\ idx = 0
    /\ state = DefaultState
    /\ data_ok = FALSE
    /\ sent = <<>>
    /\ last_in = <<>>
    /\ lookup_failed = FALSE
    /\ replay = FALSE
    /\ alerted = {}
    /\ failed = {}
    /\ begun = FALSE
    /\ run = [a \in Addresses |-> 0]
    /\ genuine = [a \in Addresses |-> 0]
    /\ durable = EmptyMap
    /\ prev_att = [a \in Addresses |-> NoHistory]
    /\ prev_prop = [a \in Addresses |-> NoHistory]
    /\ PureIdle
    /\ SchedIdle
    /\ FaultIdle
    /\ HandlerIdle

Next == BeginCycle \/ CycleStep

Spec == Init /\ [][Next]_vars

\* the entity the loop is at, and its record in the map the cycle loaded
Current == validators[idx]
AtCycleStart(address) == GetState(durable, address)
Watched == {validators[i] : i \in 1..Len(validators)}

(***************************************************************************)
(* The cycle followed for its watermarks: a watch list of one entity over  *)
(* any number of cycles, a list of two entities over one cycle, each from  *)
(* every state map below.                                                  *)
(***************************************************************************)
\* records earlier cycles leave: a fresh entity, one waiting in the queue
\* with some events notified, one confirmed active
StartRecords ==
    {DefaultState,
     [latest_attestation_slot |-> 1, latest_proposal_slot |-> 1,
      queue_position |-> Some(1), activated_notified |-> FALSE,
      activation_confirmations |-> 0],
     [latest_attestation_slot |-> 2, latest_proposal_slot |-> 0,
      queue_position |-> NoInt, activated_notified |-> TRUE,
      activation_confirmations |-> 2]}
StartMaps == UNION {[D -> StartRecords] : D \in SUBSET Addresses}

\* the queue answers of a cycle followed for something else than the queue
\* check: the entity is in the queue, or the sweep runs on
PlainLookups ==
    UNION {{Lookup(SearchOk(<<[address |-> a, position |-> JsonInt(1)]>>, Some(1)),
                   <<>>, Non200),
            Lookup(SearchOk(<<>>, NoInt), <<>>, OneMore)} : a \in Addresses}

WatermarkInit ==
    /\ validators_file \in [intact : {TRUE}, data : {<<"a">>, <<"a", "b">>}]
    /\ state_file \in [intact : {TRUE}, data : StartMaps]
    /\ durable = state_file.data
    /\ run = [a \in Addresses |-> GetState(state_file.data, a).activation_confirmations]
    /\ genuine = [a \in Addresses |-> 0]
    /\ pc = "idle"
    /\ validators = <<>>
    /\ last_state = EmptyMap
    /\ idx = 0
    /\ state = DefaultState
    /\ data_ok = FALSE
    /\ sent = <<>>
    /\ last_in = <<>>
    /\ lookup_failed = FALSE
    /\ replay = FALSE
    /\ alerted = {}
    /\ failed = {}
    /\ begun = FALSE
    /\ prev_att = [a \in Addresses |-> NoHistory]
    /\ prev_prop = [a \in Addresses |-> NoHistory]
    /\ PureIdle
    /\ SchedIdle
    /\ FaultIdle
    /\ HandlerIdle

WatermarkNext ==
    \/ ((Len(LoadValidators) < 2 \/ ~begun) /\ BeginCycle)
    \/ CycleSteps(AttHistories, PropHistories, PlainLookups)

SpecWatermark == WatermarkInit /\ [][WatermarkNext]_vars

\* C1: at the end of a cycle every watched entity's latest_attestation_slot
\* and latest_proposal_slot is at least its value at the start of the cycle,
\* whatever was fetched, so the watermarks in the state map never decrease
C1_WatermarkMonotone ==
    [][(pc = "dump" /\ pc' = "idle") =>
         \A a \in Watched :
            /\ GetState(state_file'.data, a).latest_attestation_slot
                   >= AtCycleStart(a).latest_attestation_slot
            /\ GetState(state_file'.data, a).latest_proposal_slot
                   >= AtCycleStart(a).latest_proposal_slot
            /\ GetState(durable', a).latest_attestation_slot
                   >= GetState(durable, a).latest_attestation_slot
            /\ GetState(durable', a).latest_proposal_slot
                   >= GetState(durable, a).latest_proposal_slot]_vars

\* C1's case: a cycle over two entities about to write, after a failed data
\* fetch for the first, whose watermark had advanced before, and histories of
\* two records for the second, with slots at, below and above its watermarks
C1_Witness ==
    /\ pc = "dump"
    /\ validators = <<"a", "b">>
    /\ "a" \in failed
    /\ AtCycleStart("a").latest_attestation_slot = 2
    /\ last_state["a"].latest_attestation_slot = 2
    /\ AtCycleStart("b").latest_attestation_slot = 1
    /\ AtCycleStart("b").latest_proposal_slot = 1
    /\ prev_att["b"].slots = {1, 2}
    /\ prev_prop["b"].slots = {0, 1}
    /\ last_state["b"].latest_attestation_slot = 2
    /\ last_state["b"].latest_proposal_slot = 1

\* C2: a cycle that receives for an entity the history of the previous
\* cycle again, or a part of it, sends no attestation and no proposal
\* notification for it and leaves both watermarks as the cycle loaded
\* them, in the entity's record and in the map in memory
C2_Idempotent ==
    /\ (pc = "propose" /\ replay) =>
           /\ sent = <<>>
           /\ state.latest_attestation_slot = AtCycleStart(Current).latest_attestation_slot
           /\ GetState(last_state, Current).latest_attestation_slot
                  = AtCycleStart(Current).latest_attestation_slot
    /\ (pc = "queue" /\ replay) =>
           /\ sent = <<>>
           /\ state.latest_proposal_slot = AtCycleStart(Current).latest_proposal_slot
           /\ GetState(last_state, Current).latest_proposal_slot
                  = AtCycleStart(Current).latest_proposal_slot

\* C2's case: an attestation history of two records, the later slot first,
\* received after a cycle whose history held both slots
C2_Witness ==
    /\ pc = "propose"
    /\ replay
    /\ Len(last_in) = 2
    /\ last_in[1].slot = 2
    /\ last_in[2].slot = 1
    /\ sent = <<>>
    /\ state.latest_attestation_slot = 2

\* C5: an "in-queue" observation sets confirmations to 0 and notified to
\* false; a "not-in-queue" observation adds exactly 1 to confirmations and
\* sends the alert exactly when the new count is at least 2 and notified was
\* false: from (0, false) one such observation gives 1 and no alert, the
\* second gives 2, one alert and notified true
C5_DebounceTransition ==
    [][(pc = "queue" /\ pc' \in {"fetch", "save"}) =>
         LET before == state
             after == last_state'[Current]
             obs == last_in'.status
             alerts == Len(sent')
         IN  /\ obs = "in-queue" =>
                    /\ after.activation_confirmations = 0
                    /\ after.activated_notified = FALSE
                    /\ alerts = 0
             /\ obs = "not-in-queue" =>
                    /\ after.activation_confirmations
                           = before.activation_confirmations + 1
                    /\ alerts = (IF after.activation_confirmations >= 2
                                    /\ ~before.activated_notified THEN 1 ELSE 0)
                    /\ after.activated_notified
                           = (before.activated_notified \/ alerts = 1)
             /\ (obs = "not-in-queue" /\ before.activation_confirmations = 0
                     /\ ~before.activated_notified) =>
                    /\ after.activation_confirmations = 1
                    /\ ~after.activated_notified
                    /\ alerts = 0
             /\ (obs = "not-in-queue" /\ before.activation_confirmations = 1
                     /\ ~before.activated_notified) =>
                    /\ after.activation_confirmations = 2
                    /\ after.activated_notified
                    /\ alerts = 1]_vars

\* C5's case: the second consecutive "not-in-queue" observation has just
\* sent the activation alert
C5_Witness ==
    /\ pc = "save"
    /\ last_in.status = "not-in-queue"
    /\ last_state["a"].activation_confirmations = 2
    /\ last_state["a"].activated_notified
    /\ Len(sent) = 1
    /\ sent[1].kind = "activation"

\* C6: in every run of consecutive "not-in-queue" observations of an entity
\* the activation alert is sent on the second observation and on no other,
\* so a run of length 1 sends none and a longer run exactly one; no alert is
\* sent on an "in-queue" observation, which ends the run
C6_OneAlertPerEpisode ==
    [][(pc = "queue" /\ pc' \in {"fetch", "save"}) =>
         /\ Len(sent') = (IF run'[Current] = 2 THEN 1 ELSE 0)
         /\ last_in'.status = "in-queue" => run'[Current] = 0
         /\ last_in'.status = "not-in-queue" => run'[Current] = run[Current] + 1]_vars

\* C6's case: the third observation of a run, after the alert of the second
C6_Witness ==
    /\ pc = "save"
    /\ run["a"] = 3
    /\ sent = <<>>
    /\ last_state["a"].activated_notified

\* the records of the state map in memory and of the state map on file
Records(map) == {map[a] : a \in DOMAIN map}
AllRecords == Records(last_state) \cup Records(state_file.data) \cup Records(durable)

\* C11: in every state map, in memory between the steps of a cycle and on
\* file, activated_notified is true only with activation_confirmations >= 2,
\* and after the queue check of a cycle that saw the entity in the queue its
\* activated_notified is false, in memory and in the map the cycle writes
C11_NotifiedOnlyConfirmed ==
    /\ \A r \in AllRecords : r.activated_notified => r.activation_confirmations >= 2
    /\ (pc \in {"save", "dump"} /\ last_in.status = "in-queue") =>
           ~last_state[validators[Len(validators)]].activated_notified
    /\ (pc = "idle" /\ run["a"] = 0) =>
           ~GetState(state_file.data, "a").activated_notified

\* C11's case: an entity that had been announced active is seen in the queue
\* again
C11_Witness ==
    /\ pc = "save"
    /\ last_in.status = "in-queue"
    /\ AtCycleStart("a").activated_notified
    /\ AtCycleStart("a").activation_confirmations = 3
    /\ ~last_state["a"].activated_notified
    /\ last_state["a"].activation_confirmations = 0

\* C12 as claimed: activation_confirmations is a non-negative integer that
\* never exceeds the threshold of 2, however many "not-in-queue" observations
\* follow one another
C12_ConfirmationsBounded ==
    \A r \in AllRecords :
        r.activation_confirmations >= 0 /\ r.activation_confirmations <= 2

\* C12 as amended: activation_confirmations is a non-negative integer that
\* the threshold does not bound: after the queue check it is the length of
\* the entity's current run of consecutive "not-in-queue" observations, and
\* that is what the cycle writes
C12_ConfirmationsCountRun ==
    /\ \A r \in AllRecords : r.activation_confirmations >= 0
    /\ pc \in {"save", "dump"} =>
           \A a \in Watched : last_state[a].activation_confirmations = run[a]
    /\ pc = "idle" =>
           \A a \in Addresses : GetState(state_file.data, a).activation_confirmations = run[a]

\* C12's case: the third consecutive "not-in-queue" observation
C12_Witness ==
    /\ pc = "save"
    /\ last_in.status = "not-in-queue"
    /\ run["a"] = 3
    /\ last_state["a"].activation_confirmations = 3

\* the entity the queue step has just handled, once the loop is over
LastChecked == validators[Len(validators)]

\* C13: a queue lookup with a failed request (the search or a page of the
\* sweep raising, or a sweep page answered with an error status) is no new
\* data: after it the entity's activation_confirmations and
\* activated_notified are as at the start of the cycle, and no activation
\* alert is sent for it
C13_FailedLookupIsNoData ==
    (pc = "save" /\ lookup_failed) =>
        /\ last_state[LastChecked].activation_confirmations
               = AtCycleStart(LastChecked).activation_confirmations
        /\ last_state[LastChecked].activated_notified
               = AtCycleStart(LastChecked).activated_notified
        /\ sent = <<>>

\* C14: an activation alert is sent for an entity only when its lookup of
\* this cycle and its lookup of the cycle before both completed without a
\* failed request and both reported it absent from the queue
C14_AlertNeedsTwoGenuineLookups ==
    (pc = "save" /\ sent # <<>>) => genuine[LastChecked] = 2

(***************************************************************************)
(* One cycle over two watched entities, from a state map earlier cycles    *)
(* left behind.                                                            *)
(***************************************************************************)
PairInit ==
    /\ validators_file = [intact |-> TRUE, data |-> <<"a", "b">>]
    /\ state_file \in [intact : {TRUE}, data : StartMaps]
    /\ durable = state_file.data
    /\ run = [a \in Addresses |-> GetState(state_file.data, a).activation_confirmations]
    /\ genuine = [a \in Addresses |-> 0]
    /\ pc = "idle"
    /\ validators = <<>>
    /\ last_state = EmptyMap
    /\ idx = 0
    /\ state = DefaultState
    /\ data_ok = FALSE
    /\ sent = <<>>
    /\ last_in = <<>>
    /\ lookup_failed = FALSE
    /\ replay = FALSE
    /\ alerted = {}
    /\ failed = {}
    /\ begun = FALSE
    /\ prev_att = [a \in Addresses |-> NoHistory]
    /\ prev_prop = [a \in Addresses |-> NoHistory]
    /\ PureIdle
    /\ SchedIdle
    /\ FaultIdle
    /\ HandlerIdle

PairNext == (~begun /\ BeginCycle) \/ CycleStep

ShortPairNext == (~begun /\ BeginCycle) \/ ShortCycleStep

SpecPair == PairInit /\ [][ShortPairNext]_vars

\* C7: after a cycle over two entities in which the data fetch failed for
\* one of them, no alert at all was sent for that entity and its whole state
\* record is what it was at the start of the cycle
C7_FailedEntityUntouched ==
    pc = "save" =>
        \A a \in failed :
            /\ last_state[a] = AtCycleStart(a)
            /\ \A k \in {"attestation", "proposal", "activation"} : <<a, k>> \notin alerted

(***************************************************************************)
(* The process killed at any point and started again.                      *)
(***************************************************************************)
\* the process dies: its memory is lost, the files stay as they are; the
\* observation of runs and histories starts afresh with the next process
Crash ==
    /\ pc # "dead"
    /\ pc' = "dead"
    /\ LocalsDropped
    /\ run' = [a \in Addresses |-> 0]
    /\ genuine' = [a \in Addresses |-> 0]
    /\ prev_att' = [a \in Addresses |-> NoHistory]
    /\ prev_prop' = [a \in Addresses |-> NoHistory]
    /\ UNCHANGED <<validators_file, state_file, begun, durable, pureVars, schedVars,
                   faultVars, handlerVars>>

\* main starts again and reaches its first call of check_for_updates
Restart ==
    /\ pc = "dead"
    /\ pc' = "idle"
    /\ UNCHANGED <<validators_file, state_file, validators, last_state, idx, state,
                   data_ok, sent, last_in, lookup_failed, replay, alerted, failed,
                   begun, run, genuine,
                   durable, prev_att, prev_prop, pureVars, schedVars,
                   faultVars, handlerVars>>

CrashNext == Next \/ Crash \/ Restart

SpecCrash == Init /\ [][CrashNext]_vars

\* C9: the state map is replaced atomically, so after a crash at any point,
\* also in the middle of save_last_state, load_last_state returns the map
\* that was last persisted completely
C9_AtomicPersistence == pc = "dead" => LoadLastState = durable

(***************************************************************************)
(* main: the baseline cycle, then the interval job of the scheduler        *)
(* (max_instances=1, coalesce=True).                                       *)
(***************************************************************************)
\* two instances allowed at a time
max_instances_two == 1 + 1

\* the arguments of scheduler.add_job
max_instances == 1
coalesce == TRUE

Min(a, b) == IF a <= b THEN a ELSE b

SchedInit ==
    /\ main_pc = "start"
    /\ running = 0
    /\ due = 0
    /\ started = 0
    /\ skipped = 0
    /\ env = ValidEnv
    /\ CycleIdle
    /\ PureIdle
    /\ FaultIdle
    /\ HandlerIdle

\* line 618: main calls check_for_updates itself
MainBaseline ==
    /\ main_pc = "start"
    /\ main_pc' = "baseline"
    /\ running' = running + 1
    /\ UNCHANGED <<due, started, skipped, env, cycleVars, pureVars,
                   faultVars, handlerVars>>

\* lines 619-625: the call has returned; the job is added and the scheduler started
BaselineReturns ==
    /\ main_pc = "baseline"
    /\ main_pc' = "scheduled"
    /\ running' = running - 1
    /\ UNCHANGED <<due, started, skipped, env, cycleVars, pureVars,
                   faultVars, handlerVars>>

\* another 60 seconds have passed: one more run time of the job is due
IntervalElapses ==
    /\ main_pc = "scheduled"
    /\ due < MaxDue
    /\ due' = due + 1
    /\ UNCHANGED <<main_pc, running, started, skipped, env, cycleVars, pureVars,
                   faultVars, handlerVars>>

\* the scheduler looks at the job: with coalesce the due run times count as
\* one; a run is started while fewer than max_instances are in progress and
\* is dropped otherwise; nothing stays due
SchedulerWakes ==
    /\ main_pc = "scheduled"
    /\ due > 0
    /\ LET submitted == IF coalesce THEN 1 ELSE due
           starting == Max(0, Min(submitted, max_instances - running))
       IN  /\ started + starting <= MaxRuns
           /\ skipped + (submitted - starting) <= MaxRuns
           /\ running' = running + starting
           /\ started' = started + starting
           /\ skipped' = skipped + (submitted - starting)
    /\ due' = 0
    /\ UNCHANGED <<main_pc, env, cycleVars, pureVars,
                   faultVars, handlerVars>>

\* a run of check_for_updates started by the scheduler returns
JobReturns ==
    /\ main_pc = "scheduled"
    /\ running > 0
    /\ running' = running - 1
    /\ UNCHANGED <<main_pc, due, started, skipped, env, cycleVars, pureVars,
                   faultVars, handlerVars>>

SchedNext ==
    \/ MainBaseline
    \/ BaselineReturns
    \/ IntervalElapses
    \/ SchedulerWakes
    \/ JobReturns

SpecSched == SchedInit /\ [][SchedNext]_vars

\* C8: at most one check_for_updates is executing at any time, the baseline
\* call of main included; a run starts only when none is in progress, and a
\* tick that finds a cycle running is dropped: it starts nothing and leaves
\* nothing due, so no backlog of ticks runs later
C8_OneCycleAtATime ==
    /\ [](running <= 1)
    /\ [][/\ running' > running => (running = 0 /\ running' = 1 /\ due' = 0)
          /\ started' <= started + 1
          /\ (main_pc = "scheduled" /\ running = 1 /\ due > 0 /\ due' = 0) =>
                 (running' = 1 /\ started' = started /\ skipped' = skipped + 1)]_vars

\* C8's case: a tick was dropped while a cycle was running
C8_Witness ==
    /\ main_pc = "scheduled"
    /\ running = 1
    /\ skipped >= 1
    /\ started >= 1
    /\ due = 0

(***************************************************************************)
(* The event detector alone, on every watermark and history within the     *)
(* bounds.                                                                 *)
(***************************************************************************)
DetectInit ==
    /\ arg \in ([kind : {"attestation"}, w : Slots, recs : SeqsUpTo(AttRecords, MaxLen)]
                \cup [kind : {"proposal"}, w : Slots, recs : SeqsUpTo(PropRecords, MaxLen)])
    /\ res = <<>>
    /\ returned = FALSE
    /\ CycleIdle
    /\ SchedIdle
    /\ FaultIdle
    /\ HandlerIdle

Detect ==
    /\ ~returned
    /\ returned' = TRUE
    /\ res' = IF arg.kind = "attestation"
              THEN DetectAttestations("a", arg.w, arg.recs)
              ELSE DetectProposals("a", arg.w, arg.recs)
    /\ UNCHANGED <<arg, cycleVars, schedVars,
                   faultVars, handlerVars>>

DetectNext == Detect

SpecDetect == DetectInit /\ [][DetectNext]_vars

\* how many entries of q satisfy Test
Count(q, Test(_)) == Cardinality({i \in 1..Len(q) : Test(q[i])})

\* the title a notification for a record of unknown status carries
GenericTitle(kind) == IF kind = "attestation" THEN "Attestation Update" ELSE "Block Update"
KnownStatuses == {"Success", "Missed", "block-proposed", "Block-Mined", "block-missed"}

\* C3: within one cycle and one event kind the notifications are sent in
\* ascending slot order, whatever order the data source lists the records in
C3_AscendingEmission ==
    returned =>
        \A i, j \in 1..Len(res.sent) : i < j => res.sent[i].slot <= res.sent[j].slot

\* C4: a successful fetch sends exactly one notification per record with
\* slot > w and none for a record with slot <= w; a record of unknown status
\* is notified under the generic title; the new watermark is the largest slot
\* above w, or w when there is none
C4_DetectorExact ==
    returned =>
        LET w == arg.w
            recs == arg.recs
            newSlots == {recs[i].slot : i \in {k \in 1..Len(recs) : recs[k].slot > w}}
        IN  /\ \A s \in Slots :
                 LET IsS(x) == x.slot = s
                     IsUnknownS(x) == x.slot = s /\ x.status \notin KnownStatuses
                     IsGenericS(x) == x.slot = s /\ x.title = GenericTitle(arg.kind)
                 IN  /\ Count(res.sent, IsS) = (IF s > w THEN Count(recs, IsS) ELSE 0)
                     /\ Count(res.sent, IsGenericS)
                            = (IF s > w THEN Count(recs, IsUnknownS) ELSE 0)
            /\ \A i \in 1..Len(res.sent) :
                 res.sent[i].kind = arg.kind /\ res.sent[i].address = "a"
            /\ IF newSlots = {} THEN res.max_new = w
               ELSE res.max_new \in newSlots /\ \A s \in newSlots : s <= res.max_new

\* C4's case: a history with slots below, at and above the watermark, the
\* new record of unknown status
C4_Witness ==
    /\ returned
    /\ arg.w = 1
    /\ Len(arg.recs) = 3
    /\ \E i, j, k \in 1..3 :
         /\ arg.recs[i].slot = 0
         /\ arg.recs[j].slot = 1
         /\ arg.recs[k].slot = 2 /\ arg.recs[k].status \notin KnownStatuses
    /\ Len(res.sent) = 1
    /\ res.sent[1].title = GenericTitle(arg.kind)
    /\ res.max_new = 2

(***************************************************************************)
(* The ETA estimate alone, on every position and statistics record within  *)
(* the bounds.                                                             *)
(***************************************************************************)
EpochMinuteValues == {0, 1, DEFAULT_EPOCH_MINUTES}
StatsValues ==
    [validators_per_epoch : (0 - 1)..MaxVpe, epoch_minutes : EpochMinuteValues]
    \cup [validators_per_epoch : (0 - 1)..MaxVpe]
    \cup [epoch_minutes : EpochMinuteValues]
    \cup {<<>>}

EtaInit ==
    /\ arg \in [position : {NoInt, SomeBool(TRUE), SomeBool(FALSE)}
                               \cup {Some(p) : p \in (0 - 1)..MaxPosition},
                stats : StatsValues,
                now : {0, 1000}]
    /\ res = <<>>
    /\ returned = FALSE
    /\ CycleIdle
    /\ SchedIdle
    /\ FaultIdle
    /\ HandlerIdle

Estimate ==
    /\ ~returned
    /\ returned' = TRUE
    /\ res' = EstimateActivationTime(arg.position, arg.stats, arg.now)
    /\ UNCHANGED <<arg, cycleVars, schedVars,
                   faultVars, handlerVars>>

EtaNext == Estimate

SpecEta == EtaInit /\ [][EtaNext]_vars

\* the statistics the estimate works with, after its defaults
VpeOf(stats) ==
    IF "validators_per_epoch" \in DOMAIN stats THEN stats.validators_per_epoch ELSE 4
EpochMinutesOf(stats) ==
    IF "epoch_minutes" \in DOMAIN stats THEN stats.epoch_minutes ELSE 38

\* C10: position 1 with 4 per epoch and 38-minute epochs waits 0 epochs and 0
\* minutes, position 5 waits 1 epoch and 38 minutes; a null or non-positive
\* position is active with 0 epochs and no timestamp; otherwise epochs_wait is
\* the ceiling of (position - 1) / max(validators_per_epoch, 1), that is the
\* least e with e * max(vpe, 1) >= position - 1, and minutes_wait is
\* epochs_wait * epoch_minutes
C10_EtaBoundary ==
    returned =>
        LET position == arg.position
            d == IF VpeOf(arg.stats) >= 1 THEN VpeOf(arg.stats) ELSE 1
            e == res.epochs_wait
        IN  IF position = NoInt \/ position[1] <= 0
            THEN /\ res.human = "Active (not in queue)"
                 /\ e = 0
                 /\ res.minutes_wait = 0
                 /\ res.eta = NoInt
            ELSE /\ e >= 0
                 /\ e * d >= position[1] - 1
                 /\ (e - 1) * d < position[1] - 1
                 /\ res.minutes_wait = e * EpochMinutesOf(arg.stats)
                 /\ res.eta = Some(arg.now + res.minutes_wait)
                 /\ (position[1] = 1 /\ d = 4 /\ EpochMinutesOf(arg.stats) = 38
                        => e = 0 /\ res.minutes_wait = 0)
                 /\ (position[1] = 5 /\ d = 4 /\ EpochMinutesOf(arg.stats) = 38
                        => e = 1 /\ res.minutes_wait = 38)

\* C10's case: position 5 at 4 validators per epoch and 38-minute epochs
C10_Witness ==
    /\ returned
    /\ arg.position = Some(5)
    /\ arg.stats = [validators_per_epoch |-> 4, epoch_minutes |-> 38]
    /\ res.epochs_wait = 1
    /\ res.minutes_wait = 38

\* whether the estimate has run on a position in the queue with at least
\* one validator per epoch
QueuedEstimate ==
    /\ returned
    /\ arg.position # NoInt
    /\ arg.position[1] >= 1
    /\ VpeOf(arg.stats) >= 1

\* C19 as stated: a position of exactly validators_per_epoch, and so every
\* position from 1 to validators_per_epoch, waits 0 epochs
C19_FirstEpochWaitsZero ==
    QueuedEstimate =>
        (arg.position[1] <= VpeOf(arg.stats) => res.epochs_wait = 0)

\* C19: a position of exactly validators_per_epoch v waits 0 epochs for
\* v = 1 and 1 epoch for v >= 2; position 1 is the only one that waits 0
\* epochs, and every position from 2 to v + 1 waits 1
C19_OnlyFirstPositionWaitsZero ==
    QueuedEstimate =>
        LET v == VpeOf(arg.stats)
            position == arg.position[1]
        IN  /\ position = v => res.epochs_wait = (IF v = 1 THEN 0 ELSE 1)
            /\ res.epochs_wait = 0 <=> position = 1
            /\ (position >= 2 /\ position <= v + 1) => res.epochs_wait = 1

\* C19's case: position 4 at 4 validators per epoch waits one epoch
C19_Witness ==
    /\ returned
    /\ arg.position = Some(4)
    /\ "validators_per_epoch" \in DOMAIN arg.stats
    /\ arg.stats.validators_per_epoch = 4
    /\ res.epochs_wait = 1

(***************************************************************************)
(* The notification channel failing.  bot.send_message raises when the     *)
(* send fails, and no call of it in check_for_updates is inside a try.     *)
(***************************************************************************)
\* the exception leaves check_for_updates: the messages of the records
\* before the failed call are out, nothing after the call is executed, the
\* locals are gone and the state file is as it was
SendRaises(delivered) ==
    /\ send_failed' = TRUE
    /\ pc' = "idle"
    /\ sent' = delivered
    /\ validators' = <<>>
    /\ last_state' = EmptyMap
    /\ idx' = 0
    /\ state' = DefaultState
    /\ data_ok' = FALSE
    /\ last_in' = <<>>
    /\ lookup_failed' = FALSE
    /\ replay' = FALSE
    /\ alerted' = {}
    /\ failed' = {}
    /\ UNCHANGED <<validators_file, state_file, begun, run, genuine, durable,
                   prev_att, prev_prop, pureVars, schedVars, write_failed, computed,
                   handlerVars>>

\* the histories of a cycle in which a send fails
SendAttHistories == SeqsUpTo([slot : Slots, status : {"Success"}], MaxSendLen)
SendPropHistories == SeqsUpTo([slot : Slots, status : {"block-mined"}], MaxSendLen)

\* line 381 raises at the k-th new record of the attestation loop
AttestationSendRaises(recs, k) ==
    /\ pc = "fetch"
    /\ LET st == GetState(last_state, validators[idx])
           det == DetectAttestations(validators[idx], st.latest_attestation_slot, recs)
       IN  /\ k <= Len(det.sent)
           /\ SendRaises(SubSeq(det.sent, 1, k - 1))

\* line 404 raises at the k-th new record of the proposal loop
ProposalSendRaises(recs, k) ==
    /\ pc = "propose"
    /\ LET det == DetectProposals(validators[idx], state.latest_proposal_slot, recs)
       IN  /\ k <= Len(det.sent)
           /\ SendRaises(SubSeq(det.sent, 1, k - 1))

\* line 425 raises: the activation message of a confirmed entity
ActivationSendRaises(lookup) ==
    /\ pc = "queue"
    /\ lookup \in LookupsAbout[validators[idx]]
    /\ LookupReturns(validators[idx], lookup)
    /\ Debounce(state, FetchQueueInfo(validators[idx], lookup)).alert
    /\ SendRaises(<<>>)

SendStep ==
    \/ \E recs \in SendAttHistories : \E k \in 1..MaxSendLen :
           AttestationSendRaises(recs, k)
    \/ \E recs \in SendPropHistories : \E k \in 1..MaxSendLen :
           ProposalSendRaises(recs, k)
    \/ \E lookup \in QueueLookups : ActivationSendRaises(lookup)

NotifyNext == Next \/ SendStep

SpecNotify == Init /\ [][NotifyNext]_vars

\* C15: a failing send does not stop the cycle: the step in which a call of
\* bot.send_message fails leaves the cycle going on with the following
\* records and entities, towards the write of the state map
C15_SendFailureDoesNotStopCycle ==
    [][send_failed' /\ ~send_failed => pc' \in {"fetch", "propose", "queue", "save"}]_vars

(***************************************************************************)
(* The write of the state map failing.  save_json_file has no try, and     *)
(* check_for_updates keeps nothing in memory from one call to the next.    *)
(***************************************************************************)
\* the exception leaves check_for_updates with the map it had computed; the
\* observation of runs and histories starts afresh with the next cycle
SaveRaises ==
    /\ write_failed' = TRUE
    /\ computed' = last_state
    /\ CycleReturns
    /\ run' = [a \in Addresses |-> 0]
    /\ genuine' = [a \in Addresses |-> 0]
    /\ prev_att' = [a \in Addresses |-> NoHistory]
    /\ prev_prop' = [a \in Addresses |-> NoHistory]
    /\ UNCHANGED <<validators_file, begun, durable, pureVars, schedVars, send_failed,
                   handlerVars>>

\* save_json_file line 88: open raises (no permission, no space for the
\* entry), the file is as it was
SaveOpenRaises ==
    /\ pc = "save"
    /\ UNCHANGED state_file
    /\ SaveRaises

\* save_json_file line 89: json.dump raises (the disk is full), the file is
\* left emptied or with a part of the document
SaveDumpRaises ==
    /\ pc = "dump"
    /\ state_file' = [intact |-> FALSE, data |-> EmptyMap]
    /\ SaveRaises

SaveNext == BeginCycle \/ ShortCycleStep \/ SaveOpenRaises \/ SaveDumpRaises

SpecSave == Init /\ [][SaveNext]_vars

\* C16: the cycle after a failed write of the state map starts from the map
\* the failed cycle had computed in memory: every record of that map is the
\* record the next cycle works from
C16_NextCycleStartsFromMemory ==
    [][(pc = "load_state" /\ pc' = "fetch" /\ write_failed) =>
          \A a \in DOMAIN computed : GetState(last_state', a) = computed[a]]_vars

(***************************************************************************)
(* /remove and /add while a cycle runs.  The handlers run one at a time in *)
(* the dispatcher's thread and the cycle in the scheduler's, and no lock   *)
(* guards the two files: the steps of the two threads interleave at every  *)
(* file access, the open and the write of a save included.                 *)
(***************************************************************************)
\* list.remove(x): the list without its first x
RemoveFirst(list, x) ==
    LET i == CHOOSE k \in 1..Len(list) : list[k] = x /\ \A j \in 1..(k - 1) : list[j] # x
    IN  SubSeq(list, 1, i - 1) \o SubSeq(list, i + 1, Len(list))

\* del last_state[address], when the address is a key
MapRemove(map, address) == [x \in DOMAIN map \ {address} |-> map[x]]

InList(list, x) == \E k \in 1..Len(list) : list[k] = x

\* address.startswith("0x") and len(address) == 42: the one-letter addresses
\* of the model stand for texts of this form, "0x12" is one that is too short
IsAddress(address) == address \in {"a", "b", "c"}

\* the arguments a /remove may be given: the watched addresses, one of them
\* in upper case, and an address that is not watched
RemoveTargets == Addresses \cup {"A", "c"}

\* the arguments an /add may be given: the addresses a cycle of the model
\* can watch, one of them in upper case, and a text that is no address
AddTargets == Addresses \cup {"A", "0x12"}

\* lines 66-76, @restricted: a command of another user than
\* AUTHORIZED_USER_ID is answered 'not allowed' and the handler is not run
Restricted ==
    /\ cmd_pc = "idle"
    /\ cmd_pc' = "refused"
    /\ UNCHANGED <<cmd_address, cmd_validators, cmd_last_state, cycleVars,
                   pureVars, schedVars, faultVars>>

\* lines 494-496: /remove without an argument is answered with the usage
RemoveUsage ==
    /\ cmd_pc = "idle"
    /\ cmd_pc' = "remove_usage"
    /\ UNCHANGED <<cmd_address, cmd_validators, cmd_last_state, cycleVars,
                   pureVars, schedVars, faultVars>>

\* lines 497-498: the argument in lower case, and the watch list read from
\* its file
RemoveLoadValidators(address) ==
    /\ cmd_pc = "idle"
    /\ cmd_address' = LowerAddress(address)
    /\ cmd_validators' = LoadValidators
    /\ cmd_pc' = "loaded"
    /\ UNCHANGED <<cmd_last_state, cycleVars, pureVars, schedVars, faultVars>>

\* lines 499-503: the state map read from its file; an address of the list
\* is taken out of both locals, another one is answered 'not found'
RemoveLoadState ==
    /\ cmd_pc = "loaded"
    /\ IF InList(cmd_validators, cmd_address)
       THEN /\ cmd_validators' = RemoveFirst(cmd_validators, cmd_address)
            /\ cmd_last_state' = MapRemove(LoadLastState, cmd_address)
            /\ cmd_pc' = "save_validators"
       ELSE /\ cmd_last_state' = LoadLastState
            /\ cmd_pc' = "notfound"
            /\ UNCHANGED cmd_validators
    /\ UNCHANGED <<cmd_address, cycleVars, pureVars, schedVars, faultVars>>

\* line 504, save_json_file line 88: open(filename, 'w') empties
\* validators.json
RemoveOpenValidators ==
    /\ cmd_pc = "save_validators"
    /\ validators_file' = Emptied(<<>>)
    /\ cmd_pc' = "dump_validators"
    /\ UNCHANGED <<state_file, cycleLocals, cmd_address, cmd_validators,
                   cmd_last_state, pureVars, schedVars, faultVars>>

\* save_json_file line 89: json.dump writes the handler's list
RemoveSaveValidators ==
    /\ cmd_pc = "dump_validators"
    /\ validators_file' = [intact |-> TRUE, data |-> cmd_validators]
    /\ cmd_pc' = "save_state"
    /\ UNCHANGED <<state_file, cycleLocals, cmd_address, cmd_validators,
                   cmd_last_state, pureVars, schedVars, faultVars>>

\* line 505, save_json_file line 88: open(filename, 'w') empties
\* last_state.json
RemoveOpenState ==
    /\ cmd_pc = "save_state"
    /\ state_file' = Emptied(EmptyMap)
    /\ cmd_pc' = "dump_state"
    /\ UNCHANGED <<validators_file, cycleLocals, cmd_address, cmd_validators,
                   cmd_last_state, pureVars, schedVars, faultVars>>

\* save_json_file line 89: json.dump writes the handler's copy of the map,
\* and the handler answers 'removed'
RemoveSaveState ==
    /\ cmd_pc = "dump_state"
    /\ state_file' = Written(state_file, cmd_last_state)
    /\ cmd_pc' = "removed"
    /\ UNCHANGED <<validators_file, cycleLocals, cmd_address, cmd_validators,
                   cmd_last_state, pureVars, schedVars, faultVars>>

RemoveStep ==
    \/ RemoveUsage
    \/ \E address \in RemoveTargets : RemoveLoadValidators(address)
    \/ RemoveLoadState
    \/ RemoveOpenValidators
    \/ RemoveSaveValidators
    \/ RemoveOpenState
    \/ RemoveSaveState

\* lines 456-461: /add without an argument is answered with the usage
AddUsage ==
    /\ cmd_pc = "idle"
    /\ cmd_pc' = "add_usage"
    /\ UNCHANGED <<cmd_address, cmd_validators, cmd_last_state, cycleVars,
                   pureVars, schedVars, faultVars>>

\* lines 462-468: an argument that is no address is answered 'invalid'
AddInvalid(address) ==
    /\ cmd_pc = "idle"
    /\ ~IsAddress(LowerAddress(address))
    /\ cmd_address' = LowerAddress(address)
    /\ cmd_pc' = "invalid"
    /\ UNCHANGED <<cmd_validators, cmd_last_state, cycleVars, pureVars, schedVars,
                   faultVars>>

\* lines 462-473: the argument in lower case and the watch list read from
\* its file; an address of the list is answered 'already watched', another
\* one is appended to the handler's list
AddLoadValidators(address) ==
    /\ cmd_pc = "idle"
    /\ IsAddress(LowerAddress(address))
    /\ cmd_address' = LowerAddress(address)
    /\ IF InList(LoadValidators, cmd_address')
       THEN cmd_validators' = LoadValidators /\ cmd_pc' = "already"
       ELSE cmd_validators' = Append(LoadValidators, cmd_address')
                /\ cmd_pc' = "add_save"
    /\ UNCHANGED <<cmd_last_state, cycleVars, pureVars, schedVars, faultVars>>

\* line 474, save_json_file line 88: open(filename, 'w') empties
\* validators.json
AddOpenValidators ==
    /\ cmd_pc = "add_save"
    /\ validators_file' = Emptied(<<>>)
    /\ cmd_pc' = "add_dump"
    /\ UNCHANGED <<state_file, cycleLocals, cmd_address, cmd_validators,
                   cmd_last_state, pureVars, schedVars, faultVars>>

\* save_json_file line 89: json.dump writes the longer list, and the
\* handler answers 'added'
AddSaveValidators ==
    /\ cmd_pc = "add_dump"
    /\ validators_file' = [intact |-> TRUE, data |-> cmd_validators]
    /\ cmd_pc' = "added"
    /\ UNCHANGED <<state_file, cycleLocals, cmd_address, cmd_validators,
                   cmd_last_state, pureVars, schedVars, faultVars>>

AddStep ==
    \/ AddUsage
    \/ \E address \in AddTargets : AddInvalid(address)
    \/ \E address \in AddTargets : AddLoadValidators(address)
    \/ AddOpenValidators
    \/ AddSaveValidators

\* one cycle and one command, in any order of their steps; the queue API
\* answers the cycle that the entity is in the queue, or does not answer
RemoveNext ==
    \/ (~begun /\ BeginCycle)
    \/ CycleSteps(ShortAttHistories, ShortPropHistories, PlainLookups)
    \/ Restricted
    \/ RemoveStep
    \/ AddStep

\* the entities of the watch list watched for some cycles already, with
\* equal records
RemoveInit ==
    /\ validators_file \in [intact : {TRUE}, data : {<<"a", "b">>, <<"a">>}]
    /\ state_file \in [intact : {TRUE}, data : StartMaps]
    /\ DOMAIN state_file.data = {validators_file.data[i] :
                                     i \in 1..Len(validators_file.data)}
    /\ \A x \in DOMAIN state_file.data :
           state_file.data[x] = state_file.data["a"]
    /\ state_file.data["a"] # DefaultState
    /\ durable = state_file.data
    /\ run = [a \in Addresses |-> GetState(state_file.data, a).activation_confirmations]
    /\ genuine = [a \in Addresses |-> 0]
    /\ pc = "idle"
    /\ validators = <<>>
    /\ last_state = EmptyMap
    /\ idx = 0
    /\ state = DefaultState
    /\ data_ok = FALSE
    /\ sent = <<>>
    /\ last_in = <<>>
    /\ lookup_failed = FALSE
    /\ replay = FALSE
    /\ alerted = {}
    /\ failed = {}
    /\ begun = FALSE
    /\ prev_att = [a \in Addresses |-> NoHistory]
    /\ prev_prop = [a \in Addresses |-> NoHistory]
    /\ PureIdle
    /\ SchedIdle
    /\ FaultIdle
    /\ HandlerIdle

SpecRemove == RemoveInit /\ [][RemoveNext]_vars

\* whether the cycle and the /remove are both over
BothFinished == begun /\ pc = "idle" /\ cmd_pc \in {"removed", "notfound"}

\* C17: once a cycle and a /remove interleaved with it are both over, the
\* persisted watermarks of every entity still in the watch list are at
\* least the ones the cycle wrote for it
C17_RemoveKeepsCycleUpdate ==
    BothFinished =>
        \A a \in DOMAIN durable :
            InList(LoadValidators, a) =>
                /\ GetState(LoadLastState, a).latest_attestation_slot
                       >= durable[a].latest_attestation_slot
                /\ GetState(LoadLastState, a).latest_proposal_slot
                       >= durable[a].latest_proposal_slot

\* C18: once a /remove of a watched entity is over and no cycle is running,
\* the entity is in neither file
C18_RemovalDeletesBoth ==
    (cmd_pc = "removed" /\ pc = "idle") =>
        /\ ~InList(LoadValidators, cmd_address)
        /\ cmd_address \notin DOMAIN LoadLastState

(***************************************************************************)
(* One cycle with a watch list that may be empty, from a state map earlier *)
(* cycles left behind.                                                     *)
(***************************************************************************)
EmptyInit ==
    /\ validators_file \in [intact : {TRUE}, data : {<<>>, <<"a">>}]
    /\ state_file \in [intact : {TRUE}, data : StartMaps]
    /\ durable = state_file.data
    /\ run = [a \in Addresses |-> GetState(state_file.data, a).activation_confirmations]
    /\ genuine = [a \in Addresses |-> 0]
    /\ pc = "idle"
    /\ validators = <<>>
    /\ last_state = EmptyMap
    /\ idx = 0
    /\ state = DefaultState
    /\ data_ok = FALSE
    /\ sent = <<>>
    /\ last_in = <<>>
    /\ lookup_failed = FALSE
    /\ replay = FALSE
    /\ alerted = {}
    /\ failed = {}
    /\ begun = FALSE
    /\ prev_att = [a \in Addresses |-> NoHistory]
    /\ prev_prop = [a \in Addresses |-> NoHistory]
    /\ PureIdle
    /\ SchedIdle
    /\ FaultIdle
    /\ HandlerIdle

SpecEmpty == EmptyInit /\ [][PairNext]_vars

\* C20: a cycle run with an empty watch list returns at once: it reaches no
\* fetch, hands no message to the notifier, and leaves both files, the
\* state map included, exactly as they were
C20_EmptyListCycleIsNoOp ==
    [][/\ (pc = "idle" /\ LoadValidators = <<>>) =>
             /\ pc' = "load_state"
             /\ validators' = <<>>
             /\ sent' = <<>>
             /\ state_file' = state_file
             /\ validators_file' = validators_file
       /\ (pc = "load_state" /\ validators = <<>>) =>
             /\ pc' = "idle"
             /\ sent' = <<>>
             /\ alerted' = {}
             /\ state_file' = state_file
             /\ validators_file' = validators_file]_vars

\* C20's case: a cycle has run with an empty watch list over a state file
\* that holds records
C20_Witness ==
    /\ begun
    /\ pc = "idle"
    /\ LoadValidators = <<>>
    /\ DOMAIN state_file.data # {}

(***************************************************************************)
(* One cycle in which a send may fail and the process may be killed: what  *)
(* reaches the state file, and when.                                       *)
(***************************************************************************)
\* the records an earlier cycle may have left for the entity: the ones of
\* StartRecords, and one absent from the queue once, not yet confirmed
DurableRecords ==
    StartRecords
    \cup {[latest_attestation_slot |-> 1, latest_proposal_slot |-> 0,
           queue_position |-> NoInt, activated_notified |-> FALSE,
           activation_confirmations |-> 1]}

DurableInit ==
    /\ validators_file = [intact |-> TRUE, data |-> <<"a">>]
    /\ state_file \in [intact : {TRUE},
                        data : {EmptyMap} \cup [{"a"} -> DurableRecords]]
    /\ durable = state_file.data
    /\ run = [a \in Addresses |-> GetState(state_file.data, a).activation_confirmations]
    /\ genuine = [a \in Addresses |-> 0]
    /\ pc = "idle"
    /\ validators = <<>>
    /\ last_state = EmptyMap
    /\ idx = 0
    /\ state = DefaultState
    /\ data_ok = FALSE
    /\ sent = <<>>
    /\ last_in = <<>>
    /\ lookup_failed = FALSE
    /\ replay = FALSE
    /\ alerted = {}
    /\ failed = {}
    /\ begun = FALSE
    /\ prev_att = [a \in Addresses |-> NoHistory]
    /\ prev_prop = [a \in Addresses |-> NoHistory]
    /\ PureIdle
    /\ SchedIdle
    /\ FaultIdle
    /\ HandlerIdle

DurableNext == PairNext \/ SendStep \/ Crash \/ Restart

SpecDurable == DurableInit /\ [][DurableNext]_vars

\* whether msgs holds a message of the kind for the address and the slot
Notified(msgs, kind, address, slot) ==
    \E i \in 1..Len(msgs) :
        msgs[i].kind = kind /\ msgs[i].address = address /\ msgs[i].slot = slot

\* the state file holds the map of the last completed write, or is cut short
PersistedIsWritten ==
    \/ state_file = [intact |-> TRUE, data |-> durable]
    \/ state_file = [intact |-> FALSE, data |-> EmptyMap]

\* C21: the state map is read once, when the cycle begins, and written
\* once, by the save after the loop, whose content is the map in memory;
\* a watermark advances in memory only in the step that hands the message
\* of that very slot to the notifier, and activated_notified becomes true
\* only in the step that hands over the activation message; so what the
\* state file holds was written after every message behind it was sent,
\* and a send that fails or a kill before the write leaves the file with
\* the map of the last completed write, or cut short
C21_NotifyBeforePersist ==
    /\ []PersistedIsWritten
    /\ [][/\ state_file' # state_file =>
                \/ pc = "save" /\ pc' = "dump"
                \/ pc = "dump" /\ pc' = "idle" /\ state_file'.data = last_state
          /\ (pc \in {"fetch", "propose", "queue", "save", "dump"}
                  /\ pc' \in {"fetch", "propose", "queue", "save", "dump"}) =>
                \/ last_state' = last_state
                \/ /\ pc = "queue"
                   /\ last_state' = PutState(last_state, Current, last_state'[Current])
                \/ /\ pc \in {"fetch", "propose"}
                   /\ Current \in DOMAIN last_state
                   /\ last_state' = PutState(last_state, Current, state')
          /\ (pc \in {"fetch", "propose"} /\ pc' \in {"propose", "queue"}) =>
                /\ GetState(last_state', Current).latest_attestation_slot
                       > GetState(last_state, Current).latest_attestation_slot =>
                      Notified(sent', "attestation", Current,
                               GetState(last_state', Current).latest_attestation_slot)
                /\ GetState(last_state', Current).latest_proposal_slot
                       > GetState(last_state, Current).latest_proposal_slot =>
                      Notified(sent', "proposal", Current,
                               GetState(last_state', Current).latest_proposal_slot)
          /\ (pc = "fetch" /\ pc' = "propose"
                  /\ state'.latest_attestation_slot
                         > GetState(last_state, Current).latest_attestation_slot) =>
                Notified(sent', "attestation", Current, state'.latest_attestation_slot)
          /\ (pc = "propose" /\ pc' = "queue"
                  /\ state'.latest_proposal_slot > state.latest_proposal_slot) =>
                Notified(sent', "proposal", Current, state'.latest_proposal_slot)
          /\ (pc = "queue" /\ pc' \in {"fetch", "save"}
                  /\ last_state'[Current].activated_notified
                  /\ ~state.activated_notified) =>
                sent' = <<ActivationMessage(Current)>>
         ]_vars

\* C21's case: the messages of a new attestation have been sent and the
\* advanced watermark is in memory, while the state file still holds the
\* old one
C21_Witness ==
    /\ pc = "save"
    /\ <<"a", "attestation">> \in alerted
    /\ last_state["a"].latest_attestation_slot
           > GetState(state_file.data, "a").latest_attestation_slot

(***************************************************************************)
(* The start of the process: the configuration is read when the module is  *)
(* loaded, then main checks the token and calls check_for_updates itself,  *)
(* outside any try.                                                        *)
(***************************************************************************)
\* the environments a process may be started in; TELEGRAM_ID is unset, empty,
\* 'ab', '42', '-5', ' 42\n', '4_2', '4_', the ARABIC-INDIC digit three, '42'
\* and an EM SPACE, a vertical tab and FULLWIDTH 42, or '4', an EM SPACE, '2'
Envs ==
    [TELEGRAM_ID : {Unset, Text(<<>>), Text(<<97, 98>>), Text(<<52, 50>>),
                    Text(<<45, 53>>), Text(<<32, 52, 50, 10>>),
                    Text(<<52, 95, 50>>), Text(<<52, 95>>), Text(<<1635>>),
                    Text(<<52, 50, 8195>>), Text(<<11, 65300, 65298>>),
                    Text(<<52, 8195, 50>>)},
     BOT_TOKEN : {Unset, Text(<<>>), Text(<<116>>)}]

\* the state files a process may find when it starts: none, or the one an
\* earlier run left, here with an entity seen out of the queue once
StartupMaps ==
    {EmptyMap,
     [x \in {"a"} |-> [latest_attestation_slot |-> 1, latest_proposal_slot |-> 0,
                       queue_position |-> NoInt, activated_notified |-> FALSE,
                       activation_confirmations |-> 1]]}

StartupInit ==
    /\ env \in Envs
    /\ main_pc = "import"
    /\ running = 0
    /\ due = 0
    /\ started = 0
    /\ skipped = 0
    /\ validators_file \in [intact : {TRUE}, data : {<<>>, <<"a">>}]
    /\ state_file \in [intact : {TRUE}, data : StartupMaps]
    /\ pc = "idle"
    /\ validators = <<>>
    /\ last_state = EmptyMap
    /\ idx = 0
    /\ state = DefaultState
    /\ data_ok = FALSE
    /\ sent = <<>>
    /\ last_in = <<>>
    /\ lookup_failed = FALSE
    /\ replay = FALSE
    /\ alerted = {}
    /\ failed = {}
    /\ begun = FALSE
    /\ run = [a \in Addresses |-> GetState(state_file.data, a).activation_confirmations]
    /\ genuine = [a \in Addresses |-> 0]
    /\ durable = state_file.data
    /\ prev_att = [a \in Addresses |-> NoHistory]
    /\ prev_prop = [a \in Addresses |-> NoHistory]
    /\ PureIdle
    /\ FaultIdle
    /\ HandlerIdle

\* lines 26-31: a TELEGRAM_ID that is missing or no integer ends the process
\* by exit() before main is reached
LoadConfig ==
    /\ main_pc = "import"
    /\ main_pc' = IF TelegramIdValid(env) THEN "main" ELSE "exited"
    /\ UNCHANGED <<running, due, started, skipped, env, cycleVars, pureVars,
                   faultVars, handlerVars>>

\* lines 607-609: without a token main logs an error and returns
MainChecksToken ==
    /\ main_pc = "main"
    /\ main_pc' = IF BotTokenSet(env) THEN "start" ELSE "returned"
    /\ UNCHANGED <<running, due, started, skipped, env, cycleVars, pureVars,
                   faultVars, handlerVars>>

\* whether the baseline call of check_for_updates is over
BaselineOver == begun /\ pc = "idle"

\* line 618: an exception that left check_for_updates leaves main too, and
\* the process ends
BaselineRaises ==
    /\ main_pc = "baseline"
    /\ BaselineOver
    /\ send_failed \/ write_failed
    /\ main_pc' = "raised"
    /\ running' = running - 1
    /\ UNCHANGED <<due, started, skipped, env, cycleVars, pureVars, faultVars,
                   handlerVars>>

\* the steps of the baseline call, line 618: those of any call of
\* check_for_updates, a send or the write that raises included
BaselineStep ==
    \/ (main_pc = "baseline" /\ ~begun /\ BeginCycle)
    \/ (main_pc = "baseline" /\ CycleStep)
    \/ \E recs \in SendAttHistories : \E k \in 1..MaxSendLen :
           main_pc = "baseline" /\ AttestationSendRaises(recs, k)
    \/ \E recs \in SendPropHistories : \E k \in 1..MaxSendLen :
           main_pc = "baseline" /\ ProposalSendRaises(recs, k)
    \/ \E lookup \in QueueLookups :
           main_pc = "baseline" /\ ActivationSendRaises(lookup)
    \/ (main_pc = "baseline" /\ SaveOpenRaises)
    \/ (main_pc = "baseline" /\ SaveDumpRaises)

StartupNext ==
    \/ LoadConfig
    \/ MainChecksToken
    \/ MainBaseline
    \/ BaselineStep
    \/ (BaselineOver /\ ~send_failed /\ ~write_failed /\ BaselineReturns)
    \/ BaselineRaises

SpecStartup == StartupInit /\ [][StartupNext]_vars

\* whether the configuration is in error
ConfigError == ~TelegramIdValid(env) \/ ~BotTokenSet(env)

\* C22: with a configuration error the process stops before
\* check_for_updates is called, so nothing is fetched, sent or written (the
\* state file is the one the process found);
\* and the process ends for no other reason than a configuration error
C22_OnlyConfigErrorIsFatal ==
    /\ ConfigError =>
          /\ main_pc \in {"import", "main", "exited", "returned"}
          /\ ~begun
          /\ pc = "idle"
          /\ state_file = [intact |-> TRUE, data |-> durable]
    /\ main_pc \in {"exited", "returned", "raised"} => ConfigError

(***************************************************************************)
(* The fallback sweep of fetch_queue_info alone, one action per turn of    *)
(* its while loop, on every sequence of page answers within the bounds.    *)
(***************************************************************************)
\* a page answered without 'pagination'
PageOkNoTotal(items) == [kind |-> "ok", validatorsInQueue |-> items]

\* the items of a page: none, the entity under its address in either case,
\* under its withdrawerAddress only, after another entity, or absent; its
\* position a number, true, or the text '#2' or '#' and ARABIC-INDIC 14
SweepItemLists ==
    {<<>>,
     <<[address |-> "a", position |-> JsonInt(1)]>>,
     <<[address |-> "A", index |-> JsonStr(<<35, 50>>)]>>,
     <<[address |-> "", withdrawerAddress |-> "A", position |-> JsonInt(1)]>>,
     <<[address |-> "b", position |-> JsonInt(1)],
       [address |-> "a", position |-> JsonInt(2)]>>,
     <<[address |-> "b", position |-> JsonInt(1)]>>,
     <<[address |-> "a", position |-> JsonBool(TRUE)]>>,
     <<[address |-> "a", index |-> JsonStr(<<35, 1633, 1636>>)]>>}

SweepPageAnswers ==
    {Raises, Non200}
    \cup {PageOkNoTotal(items) : items \in SweepItemLists}
    \cup {PageOk(items, tp) : items \in SweepItemLists, tp \in {0, 2, MaxPages + 1}}

\* how the pages after the listed ones are answered: with an error status,
\* with a request that raises, with an empty page that announces no further
\* page, or each with an empty page that announces one page more
SweepTails == {Non200, Raises, PageOkNoTotal(<<>>), OneMore}

SweepInit ==
    /\ arg \in [address : {"a", "A"}, pages : SeqsUpTo(SweepPageAnswers, MaxPages),
                beyond : SweepTails]
    /\ res = [page |-> 1, total_pages |-> 1, requested |-> <<>>, result |-> <<>>]
    /\ returned = FALSE
    /\ CycleIdle
    /\ SchedIdle
    /\ FaultIdle
    /\ HandlerIdle

\* lines 220-243: one turn of the loop: the page is requested; a request that
\* raises, another status than 200 and a page with the address end the
\* sweep, else total_pages is taken from the answer and page goes up by one.
\* The sweep is followed for MaxBeyond pages past the listed ones.
SweepTurn ==
    /\ ~returned
    /\ res.page <= res.total_pages
    /\ Len(res.requested) < Len(arg.pages) + MaxBeyond
    /\ LET answer == PageAt(arg, res.page)
           requested == Append(res.requested, res.page)
           ended(qinfo) == [res EXCEPT !.requested = requested, !.result = qinfo]
       IN  IF answer.kind = "raise"
           THEN res' = ended(LookupError) /\ returned' = TRUE
           ELSE IF answer.kind = "non200"
           THEN res' = ended(NotInQueue) /\ returned' = TRUE
           ELSE LET found == FoundItem(arg.address, answer.validatorsInQueue, 1)
                IN  IF found # <<>>
                    THEN res' = ended(InQueue(found[1])) /\ returned' = TRUE
                    ELSE /\ res' = [page |-> res.page + 1,
                                    total_pages |-> TotalPages(answer, res.page),
                                    requested |-> requested,
                                    result |-> <<>>]
                         /\ returned' = FALSE
    /\ UNCHANGED <<arg, cycleVars, schedVars, faultVars, handlerVars>>

\* lines 220 and 245: page has passed total_pages
SweepExit ==
    /\ ~returned
    /\ res.page > res.total_pages
    /\ res' = [res EXCEPT !.result = NotInQueue]
    /\ returned' = TRUE
    /\ UNCHANGED <<arg, cycleVars, schedVars, faultVars, handlerVars>>

SweepNext == SweepTurn \/ SweepExit

\* the thread that runs the loop goes on running it: every request returns
\* or times out (timeout=25)
SpecSweep == SweepInit /\ [][SweepNext]_vars /\ WF_vars(SweepNext)

SameIgnoringCase(x, y) == LowerAddress(x) = LowerAddress(y)

\* the record's address is the requested one, whatever the case
AddressMatches(item, address) ==
    "address" \in DOMAIN item /\ item.address # ""
        /\ SameIgnoringCase(item.address, address)

\* the same, or the record has no address and its withdrawerAddress is the
\* requested one
RecordMatches(item, address) ==
    \/ AddressMatches(item, address)
    \/ /\ ~("address" \in DOMAIN item /\ item.address # "")
       /\ "withdrawerAddress" \in DOMAIN item
       /\ SameIgnoringCase(item.withdrawerAddress, address)

\* page i is answered 200 and holds a record of the entity, fallback saying
\* whether a record without an address counts as the entity's by its
\* withdrawerAddress
PageHolds(fallback, i) ==
    LET answer == PageAt(arg, i)
    IN  /\ answer.kind = "ok"
        /\ \E k \in 1..Len(answer.validatorsInQueue) :
               IF fallback THEN RecordMatches(answer.validatorsInQueue[k], arg.address)
               ELSE AddressMatches(answer.validatorsInQueue[k], arg.address)

\* page i is answered 200 without a record of the entity
PagePassed(fallback, i) == PageAt(arg, i).kind = "ok" /\ ~PageHolds(fallback, i)

\* every page is answered 200, without a record of the entity and with a
\* totalPages of at least the next page number: the listed pages and the
\* first one after them, which all later ones are answered like
SweepKeepsOn(fallback) ==
    \A i \in 1..(Len(arg.pages) + 1) :
        PagePassed(fallback, i) /\ TotalPages(PageAt(arg, i), i) >= i + 1

\* what the sweep does up to a state:
\* the pages requested are 1, 2, 3, ... in this order, each once; a page
\* after the first is requested only when the answer before it was a 200
\* without a record of the entity and its totalPages (the page's own number
\* when it has none or 0) is not below the page's number; the sweep ends on
\* the first page that raises (status None), that is answered with another
\* status ("not-in-queue"), that holds a record of the entity ("in-queue"),
\* or whose totalPages the next number exceeds ("not-in-queue"); and the
\* result is the one of Sweep
SweepBehaves(fallback) ==
    LET requested == res.requested
        n == Len(requested)
        answer(i) == PageAt(arg, i)
        allowed(i) == i = 1 \/ i <= TotalPages(answer(i - 1), i - 1)
    IN  /\ \A i \in 1..n : requested[i] = i
        /\ \A i \in 1..n : allowed(i)
        /\ \A i \in 1..(n - 1) : PagePassed(fallback, i)
        /\ ~returned => (res.page = n + 1 /\ (n >= 1 => PagePassed(fallback, n)))
        /\ returned =>
              /\ n >= 1
              /\ Sweep(arg.address, arg, 1, 1).returns
              /\ res.result = Sweep(arg.address, arg, 1, 1).qinfo
              /\ CASE answer(n).kind = "raise" -> res.result = LookupError
                   [] answer(n).kind = "non200" -> res.result = NotInQueue
                   [] PageHolds(fallback, n) -> res.result.status = "in-queue"
                   [] OTHER -> /\ res.result = NotInQueue
                               /\ n + 1 > TotalPages(answer(n), n)
              /\ res.result.status = "in-queue" => PageHolds(fallback, n)

\* C23 as stated: the sweep terminates; it requests pages 1, 2, 3, ... each
\* at most once, stops as soon as the address is found, a page is not a 200
\* or the page number exceeds the latest totalPages, and returns "in-queue"
\* only when a page holds a record whose address is the requested one in any
\* case
C23_SweepStopsByAddress == [](SweepBehaves(FALSE)) /\ <>returned

\* C23: the same with the records the sweep takes for the entity's: those
\* whose address, or whose withdrawerAddress when they have no address, is
\* the requested one in any case; and the sweep terminates unless every page
\* is answered 200, without a record of the entity and with a totalPages of
\* at least the next page number, in which case it never returns
C23_SweepStops ==
    /\ [](SweepBehaves(TRUE))
    /\ [](SweepKeepsOn(TRUE) => ~returned)
    /\ (~SweepKeepsOn(TRUE)) ~> returned

\* C23's case: the first page passed without the entity and announced two
\* pages, the second page held the entity under its address in upper case
C23_Witness ==
    /\ returned
    /\ arg.address = "a"
    /\ res.requested = <<1, 2>>
    /\ res.result.status = "in-queue"
    /\ res.result.position = Some(2)
    /\ arg.pages[2].validatorsInQueue[1].address = "A"

====
